---- MODULE Spec2Model ----
(***************************************************************************)
(* A model of ufo2fdk's kerning feature writer (kernFeatureWriter.py) and  *)
(* of its production glyph-name generator (makeotfParts.py).               *)
(*                                                                         *)
(* A Python string is a sequence of one-character strings, so that         *)
(* slicing, filtering, prefix tests and ordinal comparison are computed    *)
(* as the code computes them.  A character outside ASCII is written as a   *)
(* named token ("bullet", "e_acute", "fi_lig", "comb_acute").              *)
(* A Python dict is a function; where the result of a loop over a dict     *)
(* depends on the order of iteration, the order is a parameter of the      *)
(* operator and the action that uses it chooses it with \E.  The order of  *)
(* the writer's pairs is chosen once, when the writer is built: a dict     *)
(* that is not modified is iterated in the same order every time.  Of that *)
(* order the state keeps what write() can tell: the order of the pairs of  *)
(* a glyph and a class and the order of the pairs of a class and a glyph,  *)
(* which are the orders of its two loops of decomposition.                 *)
(***************************************************************************)
EXTENDS Integers, Sequences, FiniteSets, TLC

VARIABLES
    mode,            \* the entry point this behaviour exercises
    pc,              \* how far the calls of this behaviour have got
    font,            \* the font: glyphs, groups, kerning, unicode values
    side1Groups,     \* KernFeatureWriter.side1Groups
    side2Groups,     \* KernFeatureWriter.side2Groups
    pairs,           \* KernFeatureWriter.pairs
    flatSide1Groups, \* KernFeatureWriter.flatSide1Groups
    flatSide2Groups, \* KernFeatureWriter.flatSide2Groups
    pairsOrder,      \* the order in which KernFeatureWriter.pairs holds its pairs
                     \* of a glyph and a class, by kind
    defaultScannedFiles, \* the default list of extractFeaturesAndTables' scannedFiles
    headerText,      \* the headerText argument of the last write()
    text,            \* the value returned by the last write(); the text of the
                     \* last extractFeaturesAndTables(text)
    name,            \* the name argument of a naming function
    uniValue,        \* the uniValue argument of normalizeGlyphName
    existing,        \* the existing argument of a naming function
    glyphOrder,      \* MakeOTFPartsCompiler.glyphOrder
    providedMap,     \* the providedMap argument
    features,        \* MakeOTFPartsCompiler.features
    files,           \* the files there are, by their paths
    result           \* the value returned (or the exception raised)

vars == <<mode, pc, font, side1Groups, side2Groups, pairs, flatSide1Groups,
          flatSide2Groups, pairsOrder, defaultScannedFiles, headerText, text, name, uniValue, existing,
          glyphOrder, providedMap, features, files, result>>

-----------------------------------------------------------------------------
(* Strings *)

\* ord(c)
ord ==
    ("-" :> 45) @@ ("." :> 46) @@ ("/" :> 47) @@ ("0" :> 48) @@ ("1" :> 49) @@
    ("2" :> 50) @@ ("3" :> 51) @@ ("4" :> 52) @@ ("5" :> 53) @@
    ("6" :> 54) @@ ("7" :> 55) @@ ("8" :> 56) @@ ("9" :> 57) @@
    ("@" :> 64) @@ ("A" :> 65) @@ ("B" :> 66) @@ ("C" :> 67) @@
    ("D" :> 68) @@ ("E" :> 69) @@ ("F" :> 70) @@ ("G" :> 71) @@
    ("H" :> 72) @@ ("I" :> 73) @@ ("J" :> 74) @@ ("K" :> 75) @@
    ("L" :> 76) @@ ("M" :> 77) @@ ("N" :> 78) @@ ("O" :> 79) @@
    ("P" :> 80) @@ ("Q" :> 81) @@ ("R" :> 82) @@ ("S" :> 83) @@
    ("T" :> 84) @@ ("U" :> 85) @@ ("V" :> 86) @@ ("W" :> 87) @@
    ("X" :> 88) @@ ("Y" :> 89) @@ ("Z" :> 90) @@ ("_" :> 95) @@
    ("a" :> 97) @@ ("b" :> 98) @@ ("c" :> 99) @@ ("d" :> 100) @@
    ("e" :> 101) @@ ("f" :> 102) @@ ("g" :> 103) @@ ("h" :> 104) @@
    ("i" :> 105) @@ ("j" :> 106) @@ ("k" :> 107) @@ ("l" :> 108) @@
    ("m" :> 109) @@ ("n" :> 110) @@ ("o" :> 111) @@ ("p" :> 112) @@
    ("q" :> 113) @@ ("r" :> 114) @@ ("s" :> 115) @@ ("t" :> 116) @@
    ("u" :> 117) @@ ("v" :> 118) @@ ("w" :> 119) @@ ("x" :> 120) @@
    ("y" :> 121) @@ ("z" :> 122) @@ ("e_acute" :> 233) @@
    ("comb_acute" :> 769) @@ ("bullet" :> 8226) @@ ("fi_lig" :> 64257)

\* s[:n]
Take(s, n) == SubSeq(s, 1, IF n < Len(s) THEN (IF n < 0 THEN 0 ELSE n) ELSE Len(s))

\* s[n:]
Drop(s, n) == SubSeq(s, (IF n < Len(s) THEN n ELSE Len(s)) + 1, Len(s))

\* s.startswith(p)
startswith(s, p) == Len(s) >= Len(p) /\ SubSeq(s, 1, Len(p)) = p

\* s < t for two strings: ordinal comparison, character by character
RECURSIVE StrLess(_, _)
StrLess(s, t) ==
    IF t = <<>> THEN FALSE
    ELSE IF s = <<>> THEN TRUE
    ELSE IF ord[Head(s)] # ord[Head(t)] THEN ord[Head(s)] < ord[Head(t)]
    ELSE StrLess(Tail(s), Tail(t))

\* sorted(S) for a collection of strings without repetitions
RECURSIVE sorted(_)
sorted(S) ==
    IF S = {} THEN <<>>
    ELSE LET least == CHOOSE x \in S : \A y \in S \ {x} : StrLess(x, y)
         IN  <<least>> \o sorted(S \ {least})

\* the elements of a list
Range(s) == {s[i] : i \in DOMAIN s}

\* sorted(l) for a list of strings, repetitions kept
RECURSIVE insertSorted(_, _)
insertSorted(l, x) ==
    IF l = <<>> THEN <<x>>
    ELSE IF StrLess(x, Head(l)) THEN <<x>> \o l
    ELSE <<Head(l)>> \o insertSorted(Tail(l), x)

RECURSIVE sortedList(_)
sortedList(l) ==
    IF l = <<>> THEN <<>>
    ELSE insertSorted(sortedList(SubSeq(l, 1, Len(l) - 1)), l[Len(l)])

\* s < t for two tuples of strings
RECURSIVE TupleLess(_, _)
TupleLess(s, t) ==
    IF t = <<>> THEN FALSE
    ELSE IF s = <<>> THEN TRUE
    ELSE IF Head(s) # Head(t) THEN StrLess(Head(s), Head(t))
    ELSE TupleLess(Tail(s), Tail(t))

\* n copies of the character c
Repeat(c, n) == [i \in 1..n |-> c]

DecDigits == <<"0", "1", "2", "3", "4", "5", "6", "7", "8", "9">>
HexDigits == DecDigits \o <<"a", "b", "c", "d", "e", "f">>

\* str(n) and "%d" % n for n >= 0
RECURSIVE str(_)
str(n) ==
    IF n < 10 THEN <<DecDigits[n + 1]>>
    ELSE str(n \div 10) \o <<DecDigits[(n % 10) + 1]>>

\* hex(n) for n >= 0, with its "0x"
RECURSIVE hexdigits(_)
hexdigits(n) ==
    IF n < 16 THEN <<HexDigits[n + 1]>>
    ELSE hexdigits(n \div 16) \o <<HexDigits[(n % 16) + 1]>>

hex(n) == <<"0", "x">> \o hexdigits(n)

\* s.zfill(width)
zfill(s, width) ==
    IF Len(s) >= width THEN s ELSE Repeat("0", width - Len(s)) \o s

\* s.upper()
upperOf ==
    ("a" :> "A") @@ ("b" :> "B") @@ ("c" :> "C") @@ ("d" :> "D") @@
    ("e" :> "E") @@ ("f" :> "F") @@ ("x" :> "X")

upper(s) == [i \in DOMAIN s |-> IF s[i] \in DOMAIN upperOf THEN upperOf[s[i]] ELSE s[i]]

\* unicodedata.normalize("NFKD", s): the compatibility decomposition of each
\* character (an ASCII character is its own decomposition)
decomposition ==
    ("e_acute" :> <<"e", "comb_acute">>) @@ ("fi_lig" :> <<"f", "i">>)

RECURSIVE normalizeNFKD(_)
normalizeNFKD(s) ==
    IF s = <<>> THEN <<>>
    ELSE (IF Head(s) \in DOMAIN decomposition
          THEN decomposition[Head(s)] ELSE <<Head(s)>>)
         \o normalizeNFKD(Tail(s))

\* a value returned, an exception raised
Return(v) == [exc |-> "None", val |-> v]
Raise(e, v) == [exc |-> e, val |-> v]

-----------------------------------------------------------------------------
(* kernFeatureWriter.py: the class name creator *)

side1Prefix == <<"p", "u", "b", "l", "i", "c", ".", "k", "e", "r", "n", "1", ".">>
side2Prefix == <<"p", "u", "b", "l", "i", "c", ".", "k", "e", "r", "n", "2", ".">>
side1FeaPrefix == <<"@", "k", "e", "r", "n", "1", ".">>
side2FeaPrefix == <<"@", "k", "e", "r", "n", "2", ".">>
groupPrefixLength == Len(side1Prefix)
classPrefixLength == Len(side1FeaPrefix)

_validCharacters ==
    {"A", "B", "C", "D", "E", "F", "G", "H", "I", "J", "K", "L", "M", "N",
     "O", "P", "Q", "R", "S", "T", "U", "V", "W", "X", "Y", "Z", "a", "b",
     "c", "d", "e", "f", "g", "h", "i", "j", "k", "l", "m", "n", "o", "p",
     "q", "r", "s", "t", "u", "v", "w", "x", "y", "z", "0", "1", "2", "3",
     "4", "5", "6", "7", "8", "9", ".", "_"}

\* the longest class name the FDK takes
maxClassNameLength == 31

noTransPossible ==
    <<"n", "o", "T", "r", "a", "n", "s", "P", "o", "s", "s", "i", "b", "l", "e">>

\* The depth of calls the interpreter allows (CPython's
\* sys.getrecursionlimit(), 1000 unless it is set): a call that would make
\* the stack deeper raises RecursionError.
recursionLimit == 1000

\* _makeUniqueClassName calls itself once for every counter whose name is
\* taken, so that the call with the counter c is more than c calls deep:
\* when the names of all the counters below the limit are taken, the calls
\* go deeper than the interpreter allows.
exceedsRecursionLimit(n, ex) ==
    \A counter \in 0..(recursionLimit - 1) :
        (IF counter > 0
         THEN Take(n, maxClassNameLength - Len(str(counter))) \o str(counter)
         ELSE n) \in ex

\* _makeUniqueClassName(name, existing, counter)
RECURSIVE _makeUniqueClassName(_, _, _)
_makeUniqueClassName(n, ex, counter) ==
    LET c == str(counter)
        newName == IF counter > 0
                   THEN Take(n, maxClassNameLength - Len(c)) \o c
                   ELSE n
    IN  IF counter > 0 /\ ~(Len(c) < maxClassNameLength - classPrefixLength)
        THEN Raise("AssertionError", <<>>)
        ELSE IF newName \in ex
        THEN IF exceedsRecursionLimit(n, ex) THEN Raise("RecursionError", <<>>)
             ELSE _makeUniqueClassName(n, ex, counter + 1)
        ELSE Return(newName)

\* legalClassName with the suffix cut one character short
legalClassName_cut23(n) ==
    LET prefix == Take(n, classPrefixLength)
        suffix == Drop(n, classPrefixLength)
        legal == SelectSeq(suffix, LAMBDA c : c \in _validCharacters)
        cut == Take(legal, maxClassNameLength - classPrefixLength - 1)
    IN  prefix \o (IF cut = <<>> THEN noTransPossible ELSE cut)

\* legalClassName without the fallback for an empty suffix
legalClassName_noFallback(n) ==
    LET prefix == Take(n, classPrefixLength)
        suffix == Drop(n, classPrefixLength)
        legal == SelectSeq(suffix, LAMBDA c : c \in _validCharacters)
    IN  prefix \o Take(legal, maxClassNameLength - classPrefixLength)

\* the candidate makeLegalClassName builds before it looks at existing
legalClassName(n) ==
    LET prefix == Take(n, classPrefixLength)
        suffix == Drop(n, classPrefixLength)
        legal == SelectSeq(suffix, LAMBDA c : c \in _validCharacters)
        cut == Take(legal, maxClassNameLength - classPrefixLength)
    IN  prefix \o (IF cut = <<>> THEN noTransPossible ELSE cut)

\* makeLegalClassName(name, existing): the unique name is computed and
\* dropped, the candidate is what is returned
makeLegalClassName(n, ex) ==
    LET candidate == legalClassName(n)
        unique == _makeUniqueClassName(candidate, ex, 0)
    IN  IF unique.exc # "None" THEN unique ELSE Return(candidate)

-----------------------------------------------------------------------------
(* kernFeatureWriter.py: KernFeatureWriter, the initial setup *)

\* None, which no name equals
None == <<"None">>

\* d[k] = v
setitem(d, k, v) == [x \in DOMAIN d \cup {k} |-> IF x = k THEN v ELSE d[x]]

\* an empty dict
EmptyDict == [x \in {} |-> 0]

\* the orders in which a loop may meet the keys of the dict d
RECURSIVE ListsOf(_)
ListsOf(S) ==
    IF S = {} THEN {<<>>}
    ELSE UNION {{<<x>> \o o : o \in ListsOf(S \ {x})} : x \in S}

Orders(d) == ListsOf(DOMAIN d)

\* glyphName in self.font
inFont(f, glyphName) == glyphName \in f.glyphs

\* getGroups() keeping the glyphs the font lacks
groupContents_unfiltered(f, groupName) == f.groups[groupName]

\* getGroups(): the two dicts do not depend on the order of the loop
groupContents(f, groupName) ==
    SelectSeq(f.groups[groupName], LAMBDA glyphName : inFont(f, glyphName))

getGroups(f) ==
    LET kept == {g \in DOMAIN f.groups : groupContents(f, g) # <<>>}
        in1 == {g \in kept : startswith(g, side1Prefix)}
        in2 == {g \in kept \ in1 : startswith(g, side2Prefix)}
    IN  [side1Groups |-> [g \in in1 |-> groupContents(f, g)],
         side2Groups |-> [g \in in2 |-> groupContents(f, g)]]

\* pairIsKept without the test that side 2 is a glyph of the font
pairIsKept_side2GlyphUntested(f, s1Groups, s2Groups, side1, side2) ==
    /\ ~(side1 \notin DOMAIN s1Groups /\ ~inFont(f, side1))
    /\ ~(startswith(side1, side1Prefix) /\ side1 \notin DOMAIN s1Groups)
    /\ ~(startswith(side2, side2Prefix) /\ side2 \notin DOMAIN s2Groups)

\* the test getPairs() makes of one kerning pair
pairIsKept(f, s1Groups, s2Groups, side1, side2) ==
    /\ ~(side1 \notin DOMAIN s1Groups /\ ~inFont(f, side1))
    /\ ~(side2 \notin DOMAIN s2Groups /\ ~inFont(f, side2))
    /\ ~(startswith(side1, side1Prefix) /\ side1 \notin DOMAIN s1Groups)
    /\ ~(startswith(side2, side2Prefix) /\ side2 \notin DOMAIN s2Groups)

\* getPairs(): the dict does not depend on the order of the loop
getPairs(f, s1Groups, s2Groups) ==
    LET kept == {p \in DOMAIN f.kerning :
                    pairIsKept(f, s1Groups, s2Groups, p[1], p[2])}
    IN  [p \in kept |-> f.kerning[p]]

\* applyGroupNameToClassNameMapping(), the mapping: one side's group names,
\* sorted, each given the class name makeLegalClassName returns for it.
\* makeLegalClassName cannot raise here: no candidate is among the raw
\* group names it is handed as existing, so the counter stays 0.
RECURSIVE sideMapping(_, _, _)
sideMapping(mapping, groupNames, feaPrefix) ==
    IF groupNames = <<>> THEN mapping
    ELSE LET groupName == Head(groupNames)
             className == feaPrefix \o Drop(groupName, groupPrefixLength)
             legal == makeLegalClassName(className, DOMAIN mapping)
         IN  sideMapping(setitem(mapping, groupName, legal.val),
                         Tail(groupNames), feaPrefix)

groupNameToClassNameMapping(s1Groups, s2Groups) ==
    sideMapping(sideMapping(EmptyDict, sorted(DOMAIN s1Groups), side1FeaPrefix),
                sorted(DOMAIN s2Groups), side2FeaPrefix)

\* applyGroupNameToClassNameMapping(), the kerning: newPairs, filled in the
\* order the loop meets the pairs
RECURSIVE renamedPairs(_, _, _, _)
renamedPairs(newPairs, order, oldPairs, mapping) ==
    IF order = <<>> THEN newPairs
    ELSE LET p == Head(order)
             side1 == IF startswith(p[1], side1Prefix) THEN mapping[p[1]] ELSE p[1]
             side2 == IF startswith(p[2], side2Prefix) THEN mapping[p[2]] ELSE p[2]
         IN  renamedPairs(setitem(newPairs, <<side1, side2>>, oldPairs[p]),
                          Tail(order), oldPairs, mapping)

\* applyGroupNameToClassNameMapping(), the groups of one side
RECURSIVE renamedGroups(_, _, _, _)
renamedGroups(newGroups, order, oldGroups, mapping) ==
    IF order = <<>> THEN newGroups
    ELSE LET groupName == Head(order)
         IN  renamedGroups(setitem(newGroups, mapping[groupName], oldGroups[groupName]),
                           Tail(order), oldGroups, mapping)

\* getFlatGroups(), one side: the first group met with a glyph is recorded
RECURSIVE flatGlyphs(_, _, _)
flatGlyphs(flat, groupName, glyphList) ==
    IF glyphList = <<>> THEN flat
    ELSE flatGlyphs(IF Head(glyphList) \in DOMAIN flat THEN flat
                    ELSE setitem(flat, Head(glyphList), groupName),
                    groupName, Tail(glyphList))

RECURSIVE getFlatGroups(_, _, _)
getFlatGroups(flat, order, groups) ==
    IF order = <<>> THEN flat
    ELSE getFlatGroups(flatGlyphs(flat, Head(order), groups[Head(order)]),
                       Tail(order), groups)

\* KernFeatureWriter(font): the writer's five dicts, given the order of each
\* loop whose result may depend on it
KernFeatureWriter(f, pairOrder, g1Order, g2Order, f1Order, f2Order) ==
    LET collected == getGroups(f)
        rawPairs == getPairs(f, collected.side1Groups, collected.side2Groups)
        mapping == groupNameToClassNameMapping(collected.side1Groups,
                                               collected.side2Groups)
        s1 == renamedGroups(EmptyDict, g1Order, collected.side1Groups, mapping)
        s2 == renamedGroups(EmptyDict, g2Order, collected.side2Groups, mapping)
    IN  [pairs |-> renamedPairs(EmptyDict, pairOrder, rawPairs, mapping),
         side1Groups |-> s1,
         side2Groups |-> s2,
         flatSide1Groups |-> getFlatGroups(EmptyDict, f1Order, s1),
         flatSide2Groups |-> getFlatGroups(EmptyDict, f2Order, s2)]

-----------------------------------------------------------------------------
(* kernFeatureWriter.py: KernFeatureWriter, pair support *)

\* d.get(k)
get(d, k) == IF k \in DOMAIN d THEN d[k] ELSE None

\* isHigherLevelPairPossible asking, for a pair of a glyph and a class,
\* whether the pair of the glyph's recorded group and the class exists
isHigherLevelPairPossible_recorded(pair, w) ==
    LET side1 == pair[1]
        side2 == pair[2]
        side1IsGroup == startswith(side1, side1FeaPrefix)
        side2IsGroup == startswith(side2, side2FeaPrefix)
        side1Group == IF side1IsGroup THEN side1 ELSE get(w.flatSide1Groups, side1)
        side2Group == IF side2IsGroup THEN side2 ELSE get(w.flatSide2Groups, side2)
    IN  IF side1IsGroup /\ side2IsGroup THEN FALSE
        ELSE IF side1IsGroup
        THEN side2Group # None /\ <<side1, side2Group>> \in DOMAIN w.pairs
        ELSE IF side2IsGroup
        THEN side1Group # None /\ <<side1Group, side2>> \in DOMAIN w.pairs
        ELSE FALSE

\* isHigherLevelPairPossible(pair)
isHigherLevelPairPossible(pair, w) ==
    LET side1 == pair[1]
        side2 == pair[2]
        side1IsGroup == startswith(side1, side1FeaPrefix)
        side2IsGroup == startswith(side2, side2FeaPrefix)
        side1Group == IF side1IsGroup THEN side1 ELSE get(w.flatSide1Groups, side1)
        side1Glyph == IF side1IsGroup THEN None ELSE side1
        side2Group == IF side2IsGroup THEN side2 ELSE get(w.flatSide2Groups, side2)
        side2Glyph == IF side2IsGroup THEN None ELSE side2
    IN  IF side1IsGroup /\ side2IsGroup THEN FALSE
        ELSE IF side1IsGroup
        THEN side2Group # None /\ <<side1, side2>> \in DOMAIN w.pairs
        ELSE IF side2IsGroup
        THEN side1Group # None /\ <<side1, side2>> \in DOMAIN w.pairs
        ELSE IF side1Group # None /\ side2Group # None
        THEN \/ <<side1Glyph, side2Glyph>> \in DOMAIN w.pairs
             \/ <<side1Group, side2Glyph>> \in DOMAIN w.pairs
             \/ <<side1Glyph, side2Group>> \in DOMAIN w.pairs
        ELSE IF side1Group # None
        THEN <<side1Glyph, side2Glyph>> \in DOMAIN w.pairs
        ELSE IF side2Group # None
        THEN <<side1Glyph, side2Glyph>> \in DOMAIN w.pairs
        ELSE FALSE

\* getSeparatedPairs(pairs), the separation: the four dicts do not depend on
\* the order of the loop
separated(ps) ==
    LET isGroup1(p) == startswith(p[1], side1FeaPrefix)
        isGroup2(p) == startswith(p[2], side2FeaPrefix)
        only(S) == [p \in S |-> ps[p]]
    IN  [groupGroup |-> only({p \in DOMAIN ps : isGroup1(p) /\ isGroup2(p)}),
         groupGlyph |-> only({p \in DOMAIN ps : isGroup1(p) /\ ~isGroup2(p)}),
         glyphGroup |-> only({p \in DOMAIN ps : ~isGroup1(p) /\ isGroup2(p)}),
         glyphGlyph |-> only({p \in DOMAIN ps : ~isGroup1(p) /\ ~isGroup2(p)})]

\* d without its key k
delitem(d, k) == [x \in DOMAIN d \ {k} |-> d[x]]

\* finalRightOf with every member kept
finalRightOf_unfiltered(side1, members, allGlyphGlyph) == sortedList(members)

\* the members a decomposed glyph, group pair is left with
finalRightOf(side1, members, allGlyphGlyph) ==
    SelectSeq(sortedList(members), LAMBDA r : <<side1, r>> \notin allGlyphGlyph)

\* finalLeftOf with every member kept
finalLeftOf_unfiltered(side2, members, glyphGlyph, allGlyphGlyph) ==
    sortedList(members)

\* finalLeftOf testing the left glyph alone: a member is left out when any
\* pair of it is known
finalLeftOf_anyRight(side2, members, glyphGlyph, allGlyphGlyph) ==
    SelectSeq(sortedList(members),
              LAMBDA l : \A known \in DOMAIN glyphGlyph \cup allGlyphGlyph : known[1] # l)

\* the members a decomposed group, glyph pair is left with
finalLeftOf(side2, members, glyphGlyph, allGlyphGlyph) ==
    SelectSeq(sortedList(members),
              LAMBDA l : /\ <<l, side2>> \notin DOMAIN glyphGlyph
                         /\ <<l, side2>> \notin allGlyphGlyph)

\* decomposeGlyphGroup without "allGlyphGlyph.add((side1, r))"
RECURSIVE decomposeGlyphGroup_unrecorded(_, _, _, _)
decomposeGlyphGroup_unrecorded(st, order, value, w) ==
    IF order = <<>> \/ st.exc # "None" THEN st
    ELSE LET side1 == Head(order)[1]
             side2 == Head(order)[2]
             finalRight == finalRightOf(side1, w.side2Groups[side2], st.allGlyphGlyph)
         IN  decomposeGlyphGroup_unrecorded(
                 IF isHigherLevelPairPossible(Head(order), w)
                    /\ side2 \notin DOMAIN w.side2Groups
                 THEN [st EXCEPT !.exc = "KeyError"]
                 ELSE IF isHigherLevelPairPossible(Head(order), w)
                 THEN [st EXCEPT
                         !.glyphGroupDecomposed =
                             setitem(@, <<side1, finalRight>>, value[Head(order)]),
                         !.glyphGroup = delitem(@, Head(order))]
                 ELSE st,
                 Tail(order), value, w)

\* getSeparatedPairs(pairs), the loop "glyph to group" over the pairs in
\* order; st holds glyphGroup, glyphGroupDecomposed and allGlyphGlyph, and
\* the KeyError of self.side2Groups[side2] once it is raised
RECURSIVE decomposeGlyphGroup(_, _, _, _)
decomposeGlyphGroup(st, order, value, w) ==
    IF order = <<>> \/ st.exc # "None" THEN st
    ELSE LET side1 == Head(order)[1]
             side2 == Head(order)[2]
             finalRight == finalRightOf(side1, w.side2Groups[side2], st.allGlyphGlyph)
         IN  decomposeGlyphGroup(
                 IF isHigherLevelPairPossible(Head(order), w)
                    /\ side2 \notin DOMAIN w.side2Groups
                 THEN [st EXCEPT !.exc = "KeyError"]
                 ELSE IF isHigherLevelPairPossible(Head(order), w)
                 THEN [st EXCEPT
                         !.allGlyphGlyph = @ \cup {<<side1, r>> : r \in Range(finalRight)},
                         !.glyphGroupDecomposed =
                             setitem(@, <<side1, finalRight>>, value[Head(order)]),
                         !.glyphGroup = delitem(@, Head(order))]
                 ELSE st,
                 Tail(order), value, w)

\* getSeparatedPairs(pairs), the loop "group to glyph"
RECURSIVE decomposeGroupGlyph(_, _, _, _)
decomposeGroupGlyph(st, order, value, w) ==
    IF order = <<>> \/ st.exc # "None" THEN st
    ELSE LET side1 == Head(order)[1]
             side2 == Head(order)[2]
             finalLeft == finalLeftOf(side2, w.side1Groups[side1],
                                      st.glyphGlyph, st.allGlyphGlyph)
         IN  decomposeGroupGlyph(
                 IF isHigherLevelPairPossible(Head(order), w)
                    /\ side1 \notin DOMAIN w.side1Groups
                 THEN [st EXCEPT !.exc = "KeyError"]
                 ELSE IF isHigherLevelPairPossible(Head(order), w)
                 THEN [st EXCEPT
                         !.allGlyphGlyph = @ \cup {<<l, side2>> : l \in Range(finalLeft)},
                         !.groupGlyphDecomposed =
                             setitem(@, <<finalLeft, side2>>, value[Head(order)]),
                         !.groupGlyph = delitem(@, Head(order))]
                 ELSE st,
                 Tail(order), value, w)

\* getSeparatedPairs(pairs) of the writer w, given the order of its two
\* decomposition loops
getSeparatedPairs(ps, w, glyphGroupOrder, groupGlyphOrder) ==
    LET sep == separated(ps)
        st0 == [glyphGlyph |-> sep.glyphGlyph,
                glyphGroup |-> sep.glyphGroup,
                glyphGroupDecomposed |-> EmptyDict,
                groupGlyph |-> sep.groupGlyph,
                groupGlyphDecomposed |-> EmptyDict,
                groupGroup |-> sep.groupGroup,
                allGlyphGlyph |-> DOMAIN sep.glyphGlyph,
                exc |-> "None"]
        st1 == decomposeGlyphGroup(st0, glyphGroupOrder, sep.glyphGroup, w)
    IN  decomposeGroupGlyph(st1, groupGlyphOrder, sep.groupGlyph, w)

-----------------------------------------------------------------------------
(* kernFeatureWriter.py: KernFeatureWriter, write support and write() *)

\* One line of the feature text: the format the code fills, the values it
\* fills it with and the indentation write() gives it.  A side of a rule is
\* the names printed for it, in brackets when it is an inline group.
Side(names, inline) == [names |-> names, inline |-> inline]
NoSide == Side(<<>>, FALSE)
Line(indent, format, str0, side1, side2, value) ==
    [indent |-> indent, format |-> format, str0 |-> str0,
     side1 |-> side1, side2 |-> side2, value |-> value]

\* the text "", as against a text of lines joined by "\n"
EmptyText == <<>>

\* getClassDefinitionsForGroups(groups): "%s = [%s];"
RECURSIVE classDefinitions(_, _)
classDefinitions(groupNames, groups) ==
    IF groupNames = <<>> THEN <<>>
    ELSE <<Line(0, "%s = [%s];", Head(groupNames),
                Side(sortedList(groups[Head(groupNames)]), TRUE), NoSide, 0)>>
         \o classDefinitions(Tail(groupNames), groups)

getClassDefinitionsForGroups(groups) ==
    classDefinitions(sorted(DOMAIN groups), groups)

\* k < l for two keys of one of the six dicts; shape says which side of its
\* keys is a tuple of glyph names
KeyLess(k, l, shape) ==
    LET less1(x, y) == IF shape = "# group exceptions, glyph"
                       THEN TupleLess(x, y) ELSE StrLess(x, y)
        less2(x, y) == IF shape = "# glyph, group exceptions"
                       THEN TupleLess(x, y) ELSE StrLess(x, y)
    IN  IF k[1] # l[1] THEN less1(k[1], l[1]) ELSE less2(k[2], l[2])

\* sorted(pairs.items()), the keys
RECURSIVE sortedKeys(_, _)
sortedKeys(S, shape) ==
    IF S = {} THEN <<>>
    ELSE LET least == CHOOSE x \in S : \A y \in S \ {x} : KeyLess(x, y, shape)
         IN  <<least>> \o sortedKeys(S \ {least}, shape)

\* getFeatureRulesForPairs(pairs), one pair: "pos %s %s %d;" or
\* "enum pos %s %s %d;", and nothing for a pair with an empty side
ruleFor(key, value, shape) ==
    LET inline1 == shape = "# group exceptions, glyph"
        inline2 == shape = "# glyph, group exceptions"
        side1 == IF inline1 THEN Side(sortedList(key[1]), TRUE)
                 ELSE Side(<<key[1]>>, FALSE)
        side2 == IF inline2 THEN Side(sortedList(key[2]), TRUE)
                 ELSE Side(<<key[2]>>, FALSE)
    IN  IF key[1] = <<>> \/ key[2] = <<>> THEN <<>>
        ELSE <<Line(0, IF inline1 \/ inline2 THEN "enum pos %s %s %d;"
                       ELSE "pos %s %s %d;",
                    <<>>, side1, side2, value)>>

RECURSIVE rulesFor(_, _, _)
rulesFor(keys, ps, shape) ==
    IF keys = <<>> THEN <<>>
    ELSE ruleFor(Head(keys), ps[Head(keys)], shape) \o rulesFor(Tail(keys), ps, shape)

getFeatureRulesForPairs(ps, shape) == rulesFor(sortedKeys(DOMAIN ps, shape), ps, shape)

\* dict(d); d.update(e)
update(d, e) == [x \in DOMAIN d \cup DOMAIN e |-> IF x \in DOMAIN e THEN e[x] ELSE d[x]]

Whitespace == {" ", "\t"}

\* line.strip()
RECURSIVE lstrip(_)
lstrip(s) == IF s # <<>> /\ Head(s) \in Whitespace THEN lstrip(Tail(s)) ELSE s

RECURSIVE rstrip(_)
rstrip(s) ==
    IF s # <<>> /\ s[Len(s)] \in Whitespace THEN rstrip(SubSeq(s, 1, Len(s) - 1)) ELSE s

strip(s) == rstrip(lstrip(s))

\* write(): the header lines
headerLines(lines) ==
    [i \in DOMAIN lines |->
        LET line == strip(lines[i])
        IN  Line(4, "%s", IF startswith(line, <<"#">>) THEN line ELSE <<"#", " ">> \o line,
                 NoSide, NoSide, 0)]

\* write(): one section of rules with its note, nothing for an empty dict
section(note, ps) ==
    IF DOMAIN ps = {} THEN <<>>
    ELSE <<Line(0, "", <<>>, NoSide, NoSide, 0), Line(0, note, <<>>, NoSide, NoSide, 0)>>
         \o getFeatureRulesForPairs(ps, note)

\* write(): a line other than "" is indented
indented(lines) ==
    [i \in DOMAIN lines |->
        IF lines[i].format = "" THEN lines[i] ELSE [lines[i] EXCEPT !.indent = 4]]

\* write() without its early return
write_alwaysWraps(w, header, glyphGroupOrder, groupGlyphOrder) ==
    LET sep == getSeparatedPairs(w.pairs, w, glyphGroupOrder, groupGlyphOrder)
        classes == getClassDefinitionsForGroups(update(w.side1Groups, w.side2Groups))
        rules == section("# glyph, glyph", sep.glyphGlyph)
                 \o section("# glyph, group exceptions", sep.glyphGroupDecomposed)
                 \o section("# group exceptions, glyph", sep.groupGlyphDecomposed)
                 \o section("# glyph, group", sep.glyphGroup)
                 \o section("# group, glyph", sep.groupGlyph)
                 \o section("# group, group", sep.groupGroup)
    IN  <<Line(0, "feature kern {", <<>>, NoSide, NoSide, 0)>>
        \o headerLines(header)
        \o indented(classes \o rules)
        \o <<Line(0, "} kern;", <<>>, NoSide, NoSide, 0)>>

\* write(headerText): the exception it ends with, "None" when it returns
writeException(w, glyphGroupOrder, groupGlyphOrder) ==
    IF DOMAIN w.pairs = {} THEN "None"
    ELSE getSeparatedPairs(w.pairs, w, glyphGroupOrder, groupGlyphOrder).exc

\* write(headerText) of the writer w, given the order of the two
\* decomposition loops; headerText is the list of its lines, None and ""
\* being the empty list
write(w, header, glyphGroupOrder, groupGlyphOrder) ==
    IF DOMAIN w.pairs = {} THEN EmptyText
    ELSE LET sep == getSeparatedPairs(w.pairs, w, glyphGroupOrder, groupGlyphOrder)
             classes == getClassDefinitionsForGroups(update(w.side1Groups, w.side2Groups))
             rules == section("# glyph, glyph", sep.glyphGlyph)
                      \o section("# glyph, group exceptions", sep.glyphGroupDecomposed)
                      \o section("# group exceptions, glyph", sep.groupGlyphDecomposed)
                      \o section("# glyph, group", sep.glyphGroup)
                      \o section("# group, glyph", sep.groupGlyph)
                      \o section("# group, group", sep.groupGroup)
         IN  <<Line(0, "feature kern {", <<>>, NoSide, NoSide, 0)>>
             \o headerLines(header)
             \o indented(classes \o rules)
             \o <<Line(0, "} kern;", <<>>, NoSide, NoSide, 0)>>

-----------------------------------------------------------------------------
(* makeotfParts.py: glyph names *)

_digits == {"0", "1", "2", "3", "4", "5", "6", "7", "8", "9"}

\* makeotfParts._validCharacters, the same characters as the class names'
_validGlyphCharacters == _validCharacters

\* the longest glyph name the FDK takes
maxGlyphNameLength == 31

notdef == <<".", "n", "o", "t", "d", "e", "f">>
glyphWord == <<"g", "l", "y", "p", "h">>

\* isLegalGlyphName without the test of the length
isLegalGlyphName_anyLength(glyphName) ==
    IF glyphName = <<>> THEN Raise("IndexError", FALSE)
    ELSE Return(/\ glyphName[1] \notin _digits
                /\ ~(glyphName[1] = "." /\ glyphName # notdef)
                /\ \A i \in DOMAIN glyphName : glyphName[i] \in _validGlyphCharacters)

\* isLegalGlyphName(glyphName); glyphName[0] raises IndexError for ""
isLegalGlyphName(glyphName) ==
    IF glyphName = <<>> THEN Raise("IndexError", FALSE)
    ELSE Return(/\ glyphName[1] \notin _digits
                /\ ~(glyphName[1] = "." /\ glyphName # notdef)
                /\ ~(Len(glyphName) > maxGlyphNameLength)
                /\ \A i \in DOMAIN glyphName : glyphName[i] \in _validGlyphCharacters)

\* int(s) for a string of decimal digits
RECURSIVE int(_)
int(s) ==
    IF s = <<>> THEN 0
    ELSE 10 * int(SubSeq(s, 1, Len(s) - 1))
         + (CHOOSE d \in 0..9 : DecDigits[d + 1] = s[Len(s)])

\* A collection of existing glyph names is written as the names it lists
\* one by one (names) and the number dense of names "glyph1", "glyph2", ...,
\* "glyph<dense>" it holds besides.
Existing(names, dense) == [names |-> names, dense |-> dense]

\* whether n is "glyph<k>" for some k in 1..dense
isDenseName(n, dense) ==
    LET digits == Drop(n, Len(glyphWord))
    IN  /\ dense > 0
        /\ startswith(n, glyphWord)
        /\ digits # <<>>
        /\ Len(digits) <= Len(str(dense))
        /\ \A i \in DOMAIN digits : digits[i] \in _digits
        /\ digits[1] # "0"
        /\ int(digits) <= dense

\* n in existing
contains(ex, n) == n \in ex.names \/ isDenseName(n, ex.dense)

\* _makeUniqueGlyphName that does not look at existing
_makeUniqueGlyphName_unchecked(glyphName, ex, number) ==
    glyphName \o <<".">> \o str(number)

\* _makeUniqueGlyphName(glyphName, existing, number)
RECURSIVE _makeUniqueGlyphName(_, _, _)
_makeUniqueGlyphName(glyphName, ex, number) ==
    LET newName == glyphName \o <<".">> \o str(number)
    IN  IF contains(ex, newName)
        THEN _makeUniqueGlyphName(glyphName, ex, number + 1)
        ELSE newName

\* the number at which the fallback names end
fallbackCeiling == 100000

\* _makeUniqueFallbackGlyphName(existing, number).  Every "glyph<k>" with
\* k <= existing.dense is in existing, so the calls for those k each go on
\* to the next; they are taken in one step.  The depth of calls the
\* interpreter allows is taken to be enough for them.
RECURSIVE _makeUniqueFallbackGlyphName(_, _)
_makeUniqueFallbackGlyphName(ex, number) ==
    IF ~(number < fallbackCeiling) THEN Raise("AssertionError", <<>>)
    ELSE IF number < ex.dense /\ ex.dense < fallbackCeiling
    THEN _makeUniqueFallbackGlyphName(ex, ex.dense)
    ELSE IF contains(ex, glyphWord \o str(number))
    THEN _makeUniqueFallbackGlyphName(ex, number + 1)
    ELSE Return(glyphWord \o str(number))

\* uniValue is None
uniNone == -1

\* the Adobe standard name normalizeGlyphName gives a Unicode value
uniName(uni) ==
    (IF uni > 0 /\ uni < 65535 THEN <<"u", "n", "i">> ELSE <<"u">>)
    \o upper(zfill(Drop(hex(uni), 2), 4))

\* candidateGlyphName with the filtered name cut to maxGlyphNameLength
\* characters before the hit test
candidateGlyphName_cut31(glyphName, uni, ex) ==
    LET legalChars == SelectSeq(normalizeNFKD(glyphName),
                                LAMBDA c : c \in _validGlyphCharacters)
        cut == SubSeq(legalChars, 1, IF Len(legalChars) > maxGlyphNameLength
                                     THEN maxGlyphNameLength ELSE Len(legalChars))
        named == IF cut = <<>> /\ uni # uniNone /\ uni # 0
                 THEN uniName(uni) ELSE cut
    IN  IF contains(ex, named) THEN _makeUniqueGlyphName(named, ex, 1) ELSE named

\* normalizeGlyphName(glyphName, uniValue, existing), down to the hit test:
\* the name it has made when it tests it for validity; unicode(glyphName)
\* leaves a text as it is
candidateGlyphName(glyphName, uni, ex) ==
    LET legalChars == SelectSeq(normalizeNFKD(glyphName),
                                LAMBDA c : c \in _validGlyphCharacters)
        named == IF legalChars = <<>> /\ uni # uniNone /\ uni # 0
                 THEN uniName(uni) ELSE legalChars
    IN  IF contains(ex, named) THEN _makeUniqueGlyphName(named, ex, 1) ELSE named

\* normalizeGlyphName(glyphName, uniValue, existing)
normalizeGlyphName(glyphName, uni, ex) ==
    LET candidate == candidateGlyphName(glyphName, uni, ex)
        legal == isLegalGlyphName(candidate)
    IN  IF legal.exc # "None" THEN Raise(legal.exc, <<>>)
        ELSE IF ~legal.val \/ candidate = <<>>
        THEN _makeUniqueFallbackGlyphName(ex, 1)
        ELSE Return(candidate)

\* makeGlyphDesignNameToFinalNameMap(providedMap), the first loop: the legal
\* names among needFinalName are kept as they are
RECURSIVE storeLegalNames(_, _)
storeLegalNames(finalMap, needFinalName) ==
    IF needFinalName = <<>> THEN Return(finalMap)
    ELSE LET glyphName == Head(needFinalName)
             legal == isLegalGlyphName(glyphName)
         IN  IF legal.exc # "None" THEN Raise(legal.exc, finalMap)
             ELSE storeLegalNames(IF legal.val
                                  THEN setitem(finalMap, glyphName, glyphName)
                                  ELSE finalMap,
                                  Tail(needFinalName))

\* the values of a dict
values(d) == {d[k] : k \in DOMAIN d}

\* makeGlyphDesignNameToFinalNameMap(providedMap), the second loop: a name is
\* made for each of the rest; f.unicode holds the glyphs of the font with
\* their Unicode values
RECURSIVE makeNames(_, _, _)
makeNames(finalMap, needFinalName, f) ==
    IF needFinalName = <<>> THEN Return(finalMap)
    ELSE LET glyphName == Head(needFinalName)
             uni == IF glyphName \in DOMAIN f.unicode
                    THEN f.unicode[glyphName] ELSE uniNone
             made == normalizeGlyphName(glyphName, uni, Existing(values(finalMap), 0))
         IN  IF glyphName \in DOMAIN finalMap
             THEN makeNames(finalMap, Tail(needFinalName), f)
             ELSE IF made.exc # "None" THEN Raise(made.exc, finalMap)
             ELSE makeNames(setitem(finalMap, glyphName, made.val),
                            Tail(needFinalName), f)

\* makeGlyphDesignNameToFinalNameMap(providedMap)
makeGlyphDesignNameToFinalNameMap(provided, order, f) ==
    LET needFinalName == SelectSeq(order, LAMBDA glyphName : glyphName \notin DOMAIN provided)
        stored == storeLegalNames(provided, needFinalName)
    IN  IF stored.exc # "None" THEN stored
        ELSE makeNames(stored.val, needFinalName, f)

-----------------------------------------------------------------------------
(* makeotfParts.py: the features file *)

\* A path is the list of its parts, an absolute path beginning with "/".
\* The paths here have no "." or ".." part, and os.path.normpath leaves
\* them as they are.
isabs(path) == path # <<>> /\ path[1] = "/"
join(directory, path) == IF isabs(path) THEN path ELSE directory \o path
dirname(path) == SubSeq(path, 1, Len(path) - 1)

\* A feature text is the list of its items: the start of a feature or table
\* definition with what follows it ("feature kern {...} kern;"), the same
\* in a comment or in a string, an include statement, and other text.
Item(kind, tag, path) == [kind |-> kind, tag |-> tag, path |-> path]
Definition(kind, tag) == Item(kind, tag, <<>>)
Commented(item) == [item EXCEPT !.kind = "comment"]
Quoted(item) == [item EXCEPT !.kind = "string"]
Include(path) == Item("include", <<>>, path)
OtherText == Item("other", <<>>, <<>>)

\* forceAbsoluteIncludesInFeatures(text, directory): includeRE is matched
\* in the whole text, its comments and strings included
forceAbsoluteIncludesInFeatures(t, directory) ==
    [i \in DOMAIN t |->
        IF t[i].path # <<>> /\ ~isabs(t[i].path)
        THEN [t[i] EXCEPT !.path = join(directory, t[i].path)]
        ELSE t[i]]

\* extractFeaturesAndTables: the text without its comments
decommented(t) == SelectSeq(t, LAMBDA item : item.kind # "comment")

\* extractFeaturesAndTables: the paths of the includes, in their order
RECURSIVE includesOf(_)
includesOf(t) ==
    IF t = <<>> THEN <<>>
    ELSE (IF Head(t).kind = "include" THEN <<Head(t).path>> ELSE <<>>) \o includesOf(Tail(t))

\* what featureTableStartRE matches
isStart(item) == item.kind \in {"feature", "table"}

\* the text from the first feature or table definition on
RECURSIVE fromFirstStart(_)
fromFirstStart(t) ==
    IF t = <<>> \/ isStart(Head(t)) THEN t ELSE fromFirstStart(Tail(t))

\* the items before the next feature or table definition
RECURSIVE upToStart(_)
upToStart(t) ==
    IF t = <<>> \/ isStart(Head(t)) THEN <<>> ELSE <<Head(t)>> \o upToStart(Tail(t))

\* _textBreakRecurse(text) of a text that starts with a definition or is
\* empty: each definition with the text up to the next one
RECURSIVE _textBreakRecurse(_)
_textBreakRecurse(t) ==
    IF t = <<>> THEN <<>>
    ELSE <<<<Head(t)>> \o upToStart(Tail(t))>>
         \o _textBreakRecurse(fromFirstStart(Tail(t)))

\* extractFeaturesAndTables: the broken texts stored by name, a later one
\* replacing an earlier one of the same name
RECURSIVE organized(_, _)
organized(broken, found) ==
    IF broken = <<>> THEN found
    ELSE LET chunk == Head(broken)
             tag == chunk[1].tag
         IN  organized(Tail(broken),
                 IF chunk[1].kind = "feature"
                 THEN [found EXCEPT !.features = setitem(@, tag, chunk)]
                 ELSE [found EXCEPT !.tables = setitem(@, tag, chunk)])

\* os.path.exists(path)
exists(fs, path) == path \in DOMAIN fs

\* extractFeaturesAndTables(text, scannedFiles), the files being fs: the
\* features and tables found and the list scannedFiles as the call leaves it
RECURSIVE extractFeaturesAndTables(_, _, _)
RECURSIVE scanIncludes(_, _, _)
extractFeaturesAndTables(t, scannedFiles, fs) ==
    LET plain == decommented(t)
        own == organized(_textBreakRecurse(fromFirstStart(plain)),
                         [features |-> EmptyDict, tables |-> EmptyDict])
    IN  scanIncludes(includesOf(plain),
                     [features |-> own.features, tables |-> own.tables,
                      scannedFiles |-> scannedFiles],
                     fs)

\* extractFeaturesAndTables, the loop "scan all includes"
scanIncludes(includes, found, fs) ==
    IF includes = <<>> THEN found
    ELSE LET path == Head(includes)
         IN  IF path \in Range(found.scannedFiles)
             THEN scanIncludes(Tail(includes), found, fs)
             ELSE LET scanned == Append(found.scannedFiles, path)
                  IN  IF ~exists(fs, path)
                      THEN scanIncludes(Tail(includes),
                                        [found EXCEPT !.scannedFiles = scanned], fs)
                      ELSE LET inner == extractFeaturesAndTables(fs[path], scanned, fs)
                           IN  scanIncludes(Tail(includes),
                                   [features |-> update(found.features, inner.features),
                                    tables |-> update(found.tables, inner.tables),
                                    scannedFiles |-> inner.scannedFiles],
                                   fs)

\* the names of the tables and of the feature setupFile_features may write
headTag == <<"h", "e", "a", "d">>
hheaTag == <<"h", "h", "e", "a">>
OS2Tag == <<"O", "S", "/", "2">>
nameTag == <<"n", "a", "m", "e">>
kernTag == <<"k", "e", "r", "n">>

\* a text that is None
NoneText == <<Item("None", <<>>, <<>>)>>

\* setupFile_features, "force absolute includes into the features": the
\* path of the existing features and their text
existingFeatures(f, feats, fs) ==
    IF f.path = None
    THEN Return([path |-> None,
                 text |-> IF f.featuresText = NoneText THEN <<>> ELSE f.featuresText])
    ELSE IF feats # None
    THEN LET existingFeaturePath == join(f.path, feats)
         IN  IF ~exists(fs, existingFeaturePath) THEN Raise("IOError", <<>>)
             ELSE Return([path |-> existingFeaturePath,
                          text |-> forceAbsoluteIncludesInFeatures(
                                       fs[existingFeaturePath],
                                       dirname(existingFeaturePath))])
    ELSE IF f.featuresText = NoneText THEN Raise("TypeError", <<>>)
    ELSE Return([path |-> join(f.path, <<"features.fea">>),
                 text |-> forceAbsoluteIncludesInFeatures(f.featuresText,
                                                          dirname(f.path))])

\* setupFile_features writing all four tables whatever the features define
autoTables_all(tables) == {headTag, hheaTag, OS2Tag, nameTag}

\* setupFile_features, "build tables that are not in the existing features":
\* the names of the tables to write
autoTables(tables) == {tag \in {headTag, hheaTag, OS2Tag, nameTag} : tag \notin DOMAIN tables}

\* setupFile_features, "build the kern feature if necessary"
needsKern(f, found) == kernTag \notin DOMAIN found.features /\ DOMAIN f.kerning # {}

\* One part of the features file, the parts being joined by "\n\n": the
\* existing text, the text of the kern feature, or the text of a table,
\* which writeFeatures_head and the like make from font.info and which
\* stands here for itself.
Part(kind, tag, body) == [kind |-> kind, tag |-> tag, body |-> body]

RECURSIVE tableParts(_)
tableParts(tags) ==
    IF tags = <<>> THEN <<>>
    ELSE <<Part("table", Head(tags), <<>>)>> \o tableParts(Tail(tags))

\* setupFile_features, "write the features"
writtenFeatures(existingText, autoFeatures, tables) ==
    <<Part("existing", <<>>, existingText)>> \o autoFeatures \o tableParts(sorted(tables))
-----------------------------------------------------------------------------
(* The fonts, the names and the arguments the calls are made with *)

\* the most kerning pairs a font has
MaxPairs == 2

glyphA == <<"a">>
glyphB == <<"b">>
\* a glyph name no font has
glyphZ == <<"z">>
Glyphs == {glyphA, glyphB}

\* The suffixes of the four groups a font may define, two for each side.
\* Under "plain" they are legal and distinct; under "clash" those of side 1
\* differ in an illegal character only and those of side 2 in their 25th
\* character only.
Schemes == {"plain", "clash"}
longSuffix == Repeat("x", maxClassNameLength - classPrefixLength)
suffixP(scheme, side) ==
    IF scheme = "plain" THEN <<"P">>
    ELSE IF side = 1 THEN <<"a", "b">> ELSE longSuffix \o <<"1">>
suffixQ(scheme, side) ==
    IF scheme = "plain" THEN <<"Q">>
    ELSE IF side = 1 THEN <<"a", "-", "b">> ELSE longSuffix \o <<"2">>
groupP(scheme, side) ==
    (IF side = 1 THEN side1Prefix ELSE side2Prefix) \o suffixP(scheme, side)
groupQ(scheme, side) ==
    (IF side = 1 THEN side1Prefix ELSE side2Prefix) \o suffixQ(scheme, side)
GroupNames(scheme) ==
    {groupP(scheme, 1), groupQ(scheme, 1), groupP(scheme, 2), groupQ(scheme, 2)}

\* what font.groups may hold for a group: nothing (the group is not
\* defined), or a list of glyph names, some of them not in the font.  The
\* first group of a side may be undefined or empty, the second is defined
\* and may have no member in the font; under "clash" the choice is smaller.
Undefined == <<<<"Undefined">>>>
ContentsP(scheme) ==
    IF scheme = "plain" THEN {Undefined, <<>>, <<glyphA>>, <<glyphB, glyphZ, glyphA>>}
    ELSE {Undefined, <<glyphA>>}
ContentsQ(scheme) ==
    IF scheme = "plain" THEN {<<glyphZ>>, <<glyphB>>, <<glyphB, glyphZ, glyphA>>}
    ELSE {<<glyphB>>, <<glyphB, glyphZ, glyphA>>}
GroupChoices(scheme) ==
    {c \in [GroupNames(scheme) -> ContentsP(scheme) \cup ContentsQ(scheme)] :
        /\ c[groupP(scheme, 1)] \in ContentsP(scheme)
        /\ c[groupP(scheme, 2)] \in ContentsP(scheme)
        /\ c[groupQ(scheme, 1)] \in ContentsQ(scheme)
        /\ c[groupQ(scheme, 2)] \in ContentsQ(scheme)}

\* the keys a kerning pair may have on each side: a glyph of the font, a
\* glyph name the font lacks, a group name
sideKeys(scheme, side) ==
    <<glyphA, glyphZ, groupP(scheme, side), groupQ(scheme, side)>>
KeyPairs(scheme) ==
    {<<sideKeys(scheme, 1)[i], sideKeys(scheme, 2)[j]>> : i, j \in 1..4}

\* The kerning value of a pair.  The code copies and prints the values and
\* never looks at them, so each pair is given a value of its own: a value
\* in the output then tells the pair it comes from.
kerningValue(scheme, pair) ==
    LET i == CHOOSE i \in 1..4 : sideKeys(scheme, 1)[i] = pair[1]
        j == CHOOSE j \in 1..4 : sideKeys(scheme, 2)[j] = pair[2]
    IN  10 * i + j

\* the subsets of S of at most n elements
RECURSIVE SubsetsUpTo(_, _)
SubsetsUpTo(S, n) ==
    IF n = 0 THEN {{}}
    ELSE LET smaller == SubsetsUpTo(S, n - 1)
         IN  smaller \cup {K \cup {x} : K \in smaller, x \in S}

Fonts ==
    {[glyphs |-> Glyphs,
      groups |-> [g \in {g \in GroupNames(scheme) : c[g] # Undefined} |-> c[g]],
      kerning |-> [p \in K |-> kerningValue(scheme, p)]] :
        <<scheme, c, K>> \in
            UNION {{scheme} \X GroupChoices(scheme) \X SubsetsUpTo(KeyPairs(scheme), MaxPairs) : scheme \in Schemes}}

\* The fonts getGroups() is tried with by itself: a group of each side, a
\* group whose name has no prefix, a group whose name lacks the last
\* character of the prefix; each undefined, empty, without a glyph of the
\* font, or with glyphs of the font among others and more than once.
PlainGroupNames ==
    {groupP("plain", 1), groupP("plain", 2), <<"P">>,
     Take(side1Prefix, groupPrefixLength - 1) \o <<"P">>}
PlainGroupContents ==
    {Undefined, <<>>, <<glyphZ>>, <<glyphA>>, <<glyphB, glyphZ, glyphA>>,
     <<glyphA, glyphZ, glyphB, glyphA>>}
GroupFonts ==
    {[glyphs |-> Glyphs,
      groups |-> [g \in {g \in PlainGroupNames : c[g] # Undefined} |-> c[g]],
      kerning |-> EmptyDict] : c \in [PlainGroupNames -> PlainGroupContents]}

\* Fonts in which the one member of every group is kerned by a glyph, glyph
\* pair too: the four groups hold a alone, and the kerning is (a, a) with
\* two of the four pairs of a and a group.
CoveredKernings ==
    {K \in SUBSET {p \in KeyPairs("plain") :
                      glyphZ \notin {p[1], p[2]} /\ glyphA \in {p[1], p[2]}} :
        <<glyphA, glyphA>> \in K /\ Cardinality(K) = 3}
CoveredFonts ==
    {[glyphs |-> Glyphs,
      groups |-> [g \in GroupNames("plain") |-> <<glyphA>>],
      kerning |-> [p \in K |-> kerningValue("plain", p)]] : K \in CoveredKernings}

\* Fonts with glyphs whose names begin as class names do, and pairs of
\* them with the glyph a, which is in no group or in a group of one side.
classLikeGlyph(side) == (IF side = 1 THEN side1FeaPrefix ELSE side2FeaPrefix) \o <<"x">>
ClassLikeKernings ==
    {[p \in K |-> IF p[1] = classLikeGlyph(1) THEN 51
                  ELSE IF p[2] = classLikeGlyph(2) THEN 15 ELSE 11] :
        K \in SUBSET {<<classLikeGlyph(1), glyphA>>, <<glyphA, classLikeGlyph(2)>>,
                      <<glyphA, glyphA>>} \ {{}}}
ClassLikeFonts ==
    {[glyphs |-> {glyphA, classLikeGlyph(1), classLikeGlyph(2)},
      groups |-> groups, kerning |-> kerning] :
        groups \in {EmptyDict, (groupP("plain", 1) :> <<glyphA>>),
                    (groupP("plain", 2) :> <<glyphA>>)},
        kerning \in ClassLikeKernings}

\* the header texts write() is called with: none, and two lines of which
\* one is a comment already
Headers ==
    {<<>>,
     <<<<" ", "#", " ", "k">>, <<"m", "y", " ", "f", "o", "n", "t", " ">>>>}

\* the most names a collection of existing names lists one by one
MaxExisting == 2

\* the class names makeLegalClassName is called with: suffixes that are
\* empty, illegal throughout, legal, illegal in part, and 23 to 25
\* characters long
ClassSuffixes ==
    {<<>>, <<"bullet">>, <<"a", "b">>, <<"a", "-", "b">>, <<"a", "b", "1">>,
     Repeat("x", 22) \o <<"1">>, longSuffix, longSuffix \o <<"1">>}
ClassNames == {prefix \o suffix : prefix \in {side1FeaPrefix, side2FeaPrefix},
                                  suffix \in ClassSuffixes}
\* names that are no class names: one shorter than a class prefix, one with
\* the prefix of a group name
OtherClassNames == {<<"@", "k">>, groupQ("clash", 1)}
ExistingClassPool ==
    {side1FeaPrefix \o suffix :
        suffix \in {<<"a", "b">>, <<"a", "b", "1">>, <<"a", "b", "2">>, longSuffix,
                    Repeat("x", 23) \o <<"1">>, noTransPossible}}

\* the names _makeUniqueClassName is called with by itself: a short one,
\* one of 30 characters, one of 31 and one of 32; and the names existing may
\* hold: these names and what they become with the counters 1 and 2
UniqueClassNames ==
    {side1FeaPrefix \o suffix :
        suffix \in {<<"a", "b">>, Repeat("x", 23), longSuffix, longSuffix \o <<"1">>}}
UniqueClassPool ==
    UniqueClassNames
    \cup {Take(n, maxClassNameLength - 1) \o str(c) : n \in UniqueClassNames, c \in 1..2}

\* the glyph names normalizeGlyphName is called with
longGlyphName == Repeat("x", maxGlyphNameLength)
GlyphNameArgs ==
    {<<"a", "b">>, <<"a", "-", "b">>, <<"-">>, <<"bullet">>, <<"1", "a">>,
     <<".", "a">>, notdef, <<"fi_lig">>, <<"e_acute">>, glyphWord \o <<"1">>,
     longGlyphName, longGlyphName \o <<"x">>,
     Repeat("x", 30) \o <<"-", "x">>}
UniValues == {uniNone, 0, 33, 65535, 128512}
ExistingGlyphPool ==
    {<<"a", "b">>, <<"a", "b", ".", "1">>, <<"u", "n", "i", "0", "0", "2", "1">>,
     glyphWord \o <<"1">>, glyphWord \o <<"2">>, longGlyphName, <<"f", "i">>, <<"e">>}
Dense == {0, 2, fallbackCeiling - 2, fallbackCeiling - 1}

\* the glyph orders, name maps and fonts makeGlyphDesignNameToFinalNameMap
\* is called with
MaxGlyphOrder == 3
MaxProvided == 1
MapNames ==
    {<<"a", "b">>, <<"a", "-", "b">>, <<"a", "b", ".", "1">>, <<"-">>, <<"c", "d">>}
ProvidedValues == {<<"a", "b">>, <<"c", "d">>, <<"q">>}

\* the lists without repetition of at most n elements of S
RECURSIVE ListsUpTo(_, _)
ListsUpTo(S, n) ==
    IF n = 0 THEN {<<>>}
    ELSE LET shorter == ListsUpTo(S, n - 1)
         IN  shorter \cup {Append(l, x) : <<l, x>> \in {<<l, x>> \in shorter \X S : x \notin Range(l)}}

\* the name maps of at most n entries whose values are legal and distinct
RECURSIVE MapsUpTo(_)
MapsUpTo(n) ==
    IF n = 0 THEN {EmptyDict}
    ELSE LET smaller == MapsUpTo(n - 1)
         IN  smaller \cup
             {setitem(m, kv[1], kv[2]) :
                <<m, kv>> \in {<<m, kv>> \in smaller \X (MapNames \X ProvidedValues) :
                                 kv[1] \notin DOMAIN m /\ kv[2] \notin values(m)}}

\* the fonts: no glyph of the order in the font, all of them without a
\* Unicode value, all of them with one
FontUnicodes ==
    {[unicode |-> EmptyDict], [unicode |-> [n \in MapNames |-> uniNone]],
     [unicode |-> [n \in MapNames |-> 33]]}

-----------------------------------------------------------------------------
(* The calls *)

NoValue == <<>>

InitKern ==
    /\ mode = "kern"
    /\ pc = "font"
    /\ font \in Fonts \cup CoveredFonts \cup ClassLikeFonts
    /\ name = NoValue
    /\ uniValue = uniNone
    /\ existing = NoValue
    /\ glyphOrder = NoValue
    /\ providedMap = NoValue
    /\ features = NoValue
    /\ files = NoValue

InitGetGroups ==
    /\ mode = "getGroups"
    /\ pc = "font"
    /\ font \in GroupFonts
    /\ name = NoValue
    /\ uniValue = uniNone
    /\ existing = NoValue
    /\ glyphOrder = NoValue
    /\ providedMap = NoValue
    /\ features = NoValue
    /\ files = NoValue

\* an existing that holds a name and what it becomes with every counter up
\* to the depth of calls the interpreter allows
TakenClassNames(n) ==
    {n} \cup {Take(n, maxClassNameLength - Len(str(c))) \o str(c) : c \in 1..recursionLimit}

InitUniqueClassName ==
    /\ mode = "uniqueClassName"
    /\ pc = "call"
    /\ font = NoValue
    /\ name \in UniqueClassNames
    /\ uniValue = uniNone
    /\ existing \in SubsetsUpTo(UniqueClassPool, MaxExisting) \cup {TakenClassNames(name)}
    /\ glyphOrder = NoValue
    /\ providedMap = NoValue
    /\ features = NoValue
    /\ files = NoValue

InitClassName ==
    /\ mode = "className"
    /\ pc = "call"
    /\ font = NoValue
    /\ name \in ClassNames \cup OtherClassNames
    /\ uniValue = uniNone
    /\ existing \in SubsetsUpTo(ExistingClassPool, MaxExisting)
    /\ glyphOrder = NoValue
    /\ providedMap = NoValue
    /\ features = NoValue
    /\ files = NoValue

InitGlyphName ==
    /\ mode = "glyphName"
    /\ pc = "call"
    /\ font = NoValue
    /\ name \in GlyphNameArgs
    /\ uniValue \in UniValues
    /\ existing \in {Existing(names, dense) :
                        names \in SubsetsUpTo(ExistingGlyphPool, MaxExisting),
                        dense \in Dense}
    /\ glyphOrder = NoValue
    /\ providedMap = NoValue
    /\ features = NoValue
    /\ files = NoValue

InitFallbackName ==
    /\ mode = "fallbackName"
    /\ pc = "call"
    /\ font = NoValue
    /\ name = NoValue
    /\ uniValue = uniNone
    /\ existing \in {Existing(names, dense) :
                        names \in SubsetsUpTo(ExistingGlyphPool, MaxExisting),
                        dense \in Dense \cup {1}}
    /\ glyphOrder = NoValue
    /\ providedMap = NoValue
    /\ features = NoValue
    /\ files = NoValue

InitNameMap ==
    /\ mode = "nameMap"
    /\ pc = "call"
    /\ font \in FontUnicodes
    /\ name = NoValue
    /\ uniValue = uniNone
    /\ existing = NoValue
    /\ glyphOrder \in ListsUpTo(MapNames, MaxGlyphOrder)
    /\ providedMap \in MapsUpTo(MaxProvided)
    /\ features = NoValue
    /\ files = NoValue

\* the most items a feature text has
MaxItems == 2

\* the font's directory, the features argument, the paths included
ufoPath == <<"/", "font.ufo">>
featuresArg == <<"my.fea">>
relativeInclude == <<"inc.fea">>
absoluteInclude == <<"/", "lib.fea">>

\* where the compiler writes the features file
featuresPath == <<"/", "parts", "features">>

\* the items of the existing feature text
FeatureItems ==
    {Definition("table", headTag), Definition("table", OS2Tag),
     Definition("feature", kernTag), Commented(Definition("table", hheaTag)),
     Quoted(Definition("feature", kernTag)), Include(relativeInclude),
     Include(absoluteInclude), Commented(Include(relativeInclude)), OtherText}

\* the texts of at most n items
RECURSIVE TextsUpTo(_)
TextsUpTo(n) ==
    IF n = 0 THEN {<<>>}
    ELSE LET shorter == TextsUpTo(n - 1)
         IN  shorter \cup {Append(t, item) : t \in shorter, item \in FeatureItems}

\* what an included file holds: a table, a kern feature in a file that
\* includes itself, a table in a comment
IncludedTexts ==
    {<<Definition("table", nameTag)>>,
     <<Definition("feature", kernTag), Include(relativeInclude), Include(absoluteInclude)>>,
     <<Commented(Definition("table", nameTag)), OtherText>>}

\* the places an include may lead to
IncludePlaces ==
    {relativeInclude, absoluteInclude, dirname(ufoPath) \o relativeInclude,
     ufoPath \o relativeInclude}

\* where the existing features come from: a font without a path, the file
\* the features argument names, the font's own features
FeatureSources ==
    {[path |-> None, features |-> None], [path |-> ufoPath, features |-> featuresArg],
     [path |-> ufoPath, features |-> None]}

\* the kerning of the font: none, a pair, a pair that is not retained
KerningChoices ==
    {EmptyDict, (<<glyphA, glyphA>> :> 11), (<<glyphA, glyphZ>> :> 12)}

InitFeatures ==
    /\ mode = "features"
    /\ pc = "call"
    /\ \E source \in FeatureSources, kerning \in KerningChoices,
          t \in TextsUpTo(MaxItems) \cup {NoneText},
          included \in IncludedTexts, present \in BOOLEAN :
          /\ font = [glyphs |-> Glyphs, groups |-> EmptyDict, kerning |-> kerning,
                     path |-> source.path,
                     featuresText |-> IF source.features = None THEN t ELSE NoneText]
          /\ features = source.features
          /\ files = [p \in (IF present THEN IncludePlaces ELSE {})
                            \cup (IF source.features = None \/ t = NoneText THEN {}
                                  ELSE {join(ufoPath, featuresArg)}) |->
                         IF p \in IncludePlaces THEN included ELSE t]
    /\ name = NoValue
    /\ uniValue = uniNone
    /\ existing = NoValue
    /\ glyphOrder = NoValue
    /\ providedMap = NoValue

\* The files extractFeaturesAndTables is called among: none; a file that
\* defines a table; a file that includes itself; two files that include
\* each other.
ExtractFiles ==
    {EmptyDict,
     (absoluteInclude :> <<Definition("table", nameTag)>>),
     (absoluteInclude :> <<Definition("feature", kernTag), Include(absoluteInclude)>>),
     (absoluteInclude :> <<Definition("table", nameTag), Include(relativeInclude)>>)
        @@ (relativeInclude :> <<Definition("feature", kernTag),
                                Include(absoluteInclude)>>)}

\* the texts it is called with
ExtractTexts ==
    {<<>>,
     <<Definition("table", headTag)>>,
     <<Include(absoluteInclude)>>,
     <<Definition("table", headTag), Include(absoluteInclude)>>,
     <<Include(relativeInclude), Include(absoluteInclude)>>,
     <<Commented(Include(absoluteInclude)), Definition("feature", kernTag)>>}

InitExtract ==
    /\ mode = "extract"
    /\ pc = "call"
    /\ files \in ExtractFiles
    /\ font = NoValue
    /\ name = NoValue
    /\ uniValue = uniNone
    /\ existing = NoValue
    /\ glyphOrder = NoValue
    /\ providedMap = NoValue
    /\ features = NoValue

\* the names isLegalGlyphName is called with
LegalNameArgs ==
    GlyphNameArgs \cup {<<>>, <<"a", ".", "b", "_", "1">>, notdef \o <<"x">>,
                        <<"a", "1">>, <<"_">>}

InitIsLegalGlyphName ==
    /\ mode = "isLegalGlyphName"
    /\ pc = "call"
    /\ font = NoValue
    /\ name \in LegalNameArgs
    /\ uniValue = uniNone
    /\ existing = NoValue
    /\ glyphOrder = NoValue
    /\ providedMap = NoValue
    /\ features = NoValue
    /\ files = NoValue

Init ==
    /\ \/ InitKern
       \/ InitClassName
       \/ InitGlyphName
       \/ InitFallbackName
       \/ InitNameMap
       \/ InitIsLegalGlyphName
       \/ InitFeatures
       \/ InitGetGroups
       \/ InitUniqueClassName
       \/ InitExtract
    /\ side1Groups = NoValue
    /\ side2Groups = NoValue
    /\ pairs = NoValue
    /\ flatSide1Groups = NoValue
    /\ flatSide2Groups = NoValue
    /\ pairsOrder = NoValue
    /\ defaultScannedFiles = <<>>
    /\ headerText = NoValue
    /\ text = NoValue
    /\ result = NoValue

\* the writer's five dicts
writerOf ==
    [pairs |-> pairs, side1Groups |-> side1Groups, side2Groups |-> side2Groups,
     flatSide1Groups |-> flatSide1Groups, flatSide2Groups |-> flatSide2Groups]

\* the writers KernFeatureWriter(f) may build, one for each choice of orders
Writers(f) ==
    LET collected == getGroups(f)
        rawPairs == getPairs(f, collected.side1Groups, collected.side2Groups)
        mapping == groupNameToClassNameMapping(collected.side1Groups,
                                               collected.side2Groups)
    IN  UNION {
          LET s1 == renamedGroups(EmptyDict, g1Order, collected.side1Groups, mapping)
              s2 == renamedGroups(EmptyDict, g2Order, collected.side2Groups, mapping)
          IN  {KernFeatureWriter(f, pairOrder, g1Order, g2Order, f1Order, f2Order) :
                  pairOrder \in Orders(rawPairs),
                  f1Order \in Orders(s1), f2Order \in Orders(s2)} :
          g1Order \in Orders(collected.side1Groups),
          g2Order \in Orders(collected.side2Groups)}

\* the texts write(header) of the writer w may return
Texts(w, header) ==
    IF DOMAIN w.pairs = {} THEN {write(w, header, <<>>, <<>>)}
    ELSE LET sep == separated(w.pairs)
         IN  {write(w, header, glyphGroupOrder, groupGlyphOrder) :
                 glyphGroupOrder \in Orders(sep.glyphGroup),
                 groupGlyphOrder \in Orders(sep.groupGlyph)}

\* writeFeatures_kern(): the texts KernFeatureWriter(self.font).write() may
\* return
writeFeatures_kern(f) == UNION {Texts(w, <<>>) : w \in Writers(f)}

\* setupFile_features(path): the files it may leave and what it returns or
\* raises
setupFile_features(f, feats, fs, path) ==
    LET source == existingFeatures(f, feats, fs)
    IN  IF source.exc # "None" THEN {[files |-> fs, result |-> source]}
        ELSE LET found == extractFeaturesAndTables(source.val.text,
                                                   <<source.val.path>>, fs)
                 autoFeatures ==
                     IF needsKern(f, found)
                     THEN {<<Part("feature", kernTag, t)>> : t \in writeFeatures_kern(f)}
                     ELSE {<<>>}
             IN  {[files |-> setitem(fs, path,
                                     writtenFeatures(source.val.text, auto,
                                                     autoTables(found.tables))),
                   result |-> Return(None)] : auto \in autoFeatures}

\* writer = KernFeatureWriter(font)
Construct ==
    /\ mode = "kern"
    /\ pc = "font"
    /\ \E w \in Writers(font) :
        /\ pairs' = w.pairs
        /\ side1Groups' = w.side1Groups
        /\ side2Groups' = w.side2Groups
        /\ flatSide1Groups' = w.flatSide1Groups
        /\ flatSide2Groups' = w.flatSide2Groups
        /\ pairsOrder' \in {glyphGroupOrder \o groupGlyphOrder :
                               glyphGroupOrder \in Orders(separated(w.pairs).glyphGroup),
                               groupGlyphOrder \in Orders(separated(w.pairs).groupGlyph)}
    /\ pc' = "writer"
    /\ UNCHANGED <<mode, font, defaultScannedFiles, headerText, text, name,
                   uniValue, existing, glyphOrder, providedMap, features, files,
                   result>>

\* writer.getGroups(), the first step of KernFeatureWriter(font)
GetGroups ==
    /\ mode = "getGroups"
    /\ pc = "font"
    /\ side1Groups' = getGroups(font).side1Groups
    /\ side2Groups' = getGroups(font).side2Groups
    /\ pc' = "groups"
    /\ UNCHANGED <<mode, font, pairsOrder, defaultScannedFiles, pairs,
                   flatSide1Groups, flatSide2Groups, headerText, text, name,
                   uniValue, existing, glyphOrder, providedMap, features, files,
                   result>>

\* The keys of the dict d in the order in which a loop over it meets them,
\* d having been filled in the order given.  The order of self.pairs is the
\* same in every loop over it, the dict not being modified in between.
loopOrder(order, d) == SelectSeq(order, LAMBDA k : k \in DOMAIN d)

\* write() deleting the decomposed pairs from self.pairs, as "del
\* glyphGroup[side1, side2]" would were glyphGroup the dict pairs itself
Write_deleting ==
    /\ mode = "kern"
    /\ pc \in {"writer", "written", "raised"}
    /\ \E header \in Headers :
        LET sep == separated(pairs)
            glyphGroupOrder == loopOrder(pairsOrder, sep.glyphGroup)
            groupGlyphOrder == loopOrder(pairsOrder, sep.groupGlyph)
            decomposed == {p \in DOMAIN sep.glyphGroup \cup DOMAIN sep.groupGlyph :
                              isHigherLevelPairPossible(p, writerOf)}
        IN  /\ headerText' = header
            /\ writeException(writerOf, glyphGroupOrder, groupGlyphOrder) = "None"
            /\ text' = write(writerOf, header, glyphGroupOrder, groupGlyphOrder)
            /\ pairs' = [p \in DOMAIN pairs \ decomposed |-> pairs[p]]
            /\ pc' = "written"
    /\ UNCHANGED <<mode, font, pairsOrder, defaultScannedFiles, side1Groups,
                   side2Groups, flatSide1Groups, flatSide2Groups, name, uniValue,
                   existing, glyphOrder, providedMap, features, files, result>>

\* text = writer.write(headerText), or the KeyError write() ends with; a
\* writer is called any number of times
Write ==
    /\ mode = "kern"
    /\ pc \in {"writer", "written", "raised"}
    /\ \E header \in Headers :
        LET sep == separated(pairs)
            glyphGroupOrder == loopOrder(pairsOrder, sep.glyphGroup)
            groupGlyphOrder == loopOrder(pairsOrder, sep.groupGlyph)
        IN  /\ headerText' = header
            /\ IF writeException(writerOf, glyphGroupOrder, groupGlyphOrder) # "None"
               THEN /\ result' = Raise(writeException(writerOf, glyphGroupOrder,
                                                      groupGlyphOrder), <<>>)
                    /\ pc' = "raised"
                    /\ UNCHANGED text
               ELSE /\ text' = write(writerOf, header, glyphGroupOrder, groupGlyphOrder)
                    /\ pc' = "written"
                    /\ UNCHANGED result
    /\ UNCHANGED <<mode, font, pairsOrder, defaultScannedFiles, side1Groups,
                   side2Groups, pairs, flatSide1Groups, flatSide2Groups, name,
                   uniValue, existing, glyphOrder, providedMap, features, files>>

\* a naming function returns (or raises)
Returns(value) ==
    /\ pc = "call"
    /\ result' = value
    /\ pc' = "done"
    /\ UNCHANGED <<mode, font, pairsOrder, defaultScannedFiles, side1Groups,
                   side2Groups, pairs, flatSide1Groups, flatSide2Groups, headerText,
                   text, name, uniValue, existing, glyphOrder, providedMap,
                   features, files>>

\* result = makeLegalClassName(name, existing)
CallMakeLegalClassName ==
    /\ mode = "className"
    /\ Returns(makeLegalClassName(name, existing))

\* result = _makeUniqueClassName(name, existing)
CallMakeUniqueClassName ==
    /\ mode = "uniqueClassName"
    /\ Returns(_makeUniqueClassName(name, existing, 0))

\* result = normalizeGlyphName(name, uniValue, existing)
CallNormalizeGlyphName ==
    /\ mode = "glyphName"
    /\ Returns(normalizeGlyphName(name, uniValue, existing))

\* result = _makeUniqueFallbackGlyphName(existing)
CallMakeUniqueFallbackGlyphName ==
    /\ mode = "fallbackName"
    /\ Returns(_makeUniqueFallbackGlyphName(existing, 1))

\* result = MakeOTFPartsCompiler(font, path, glyphOrder=glyphOrder,
\*     glyphDesignNameToFinalNameMap=providedMap).glyphDesignNameToFinalNameMap
CallMakeGlyphDesignNameToFinalNameMap ==
    /\ mode = "nameMap"
    /\ Returns(makeGlyphDesignNameToFinalNameMap(providedMap, glyphOrder, font))

\* result = isLegalGlyphName(name)
CallIsLegalGlyphName ==
    /\ mode = "isLegalGlyphName"
    /\ Returns(isLegalGlyphName(name))

\* compiler.setupFile_features(featuresPath)
SetupFileFeatures ==
    /\ mode = "features"
    /\ pc = "call"
    /\ \E outcome \in setupFile_features(font, features, files, featuresPath) :
          /\ files' = outcome.files
          /\ result' = outcome.result
    /\ pc' = "done"
    /\ UNCHANGED <<mode, font, pairsOrder, defaultScannedFiles, side1Groups,
                   side2Groups, pairs, flatSide1Groups, flatSide2Groups, headerText,
                   text, name, uniValue, existing, glyphOrder, providedMap,
                   features>>

\* result = extractFeaturesAndTables(text), scannedFiles being left to its
\* default: the one list made when the function was defined, which every
\* such call appends to
CallExtractFeaturesAndTables ==
    /\ mode = "extract"
    /\ pc \in {"call", "done"}
    /\ \E t \in ExtractTexts :
        LET found == extractFeaturesAndTables(t, defaultScannedFiles, files)
        IN  /\ text' = t
            /\ result' = Return([features |-> found.features, tables |-> found.tables,
                                 scanned |-> Drop(found.scannedFiles,
                                                  Len(defaultScannedFiles))])
            /\ defaultScannedFiles' = found.scannedFiles
    /\ pc' = "done"
    /\ UNCHANGED <<mode, font, pairsOrder, side1Groups, side2Groups, pairs,
                   flatSide1Groups, flatSide2Groups, headerText, name, uniValue,
                   existing, glyphOrder, providedMap, features, files>>

Next ==
    \/ Construct
    \/ Write
    \/ CallMakeLegalClassName
    \/ CallNormalizeGlyphName
    \/ CallMakeUniqueFallbackGlyphName
    \/ CallMakeGlyphDesignNameToFinalNameMap
    \/ CallIsLegalGlyphName
    \/ SetupFileFeatures
    \/ GetGroups
    \/ CallMakeUniqueClassName
    \/ CallExtractFeaturesAndTables

Spec == Init /\ [][Next]_vars

-----------------------------------------------------------------------------
(* What the properties speak of *)

\* a name of a kerning group
isGroupName(key) == startswith(key, side1Prefix) \/ startswith(key, side2Prefix)

\* a key of a kerning pair that names a glyph the font lacks, a group the
\* font does not define, or a group no member of which is in the font
isBadKey(f, key) ==
    IF isGroupName(key)
    THEN \/ key \notin DOMAIN f.groups
         \/ \A i \in DOMAIN f.groups[key] : f.groups[key][i] \notin f.glyphs
    ELSE key \notin f.glyphs

isBadPair(f, pair) == isBadKey(f, pair[1]) \/ isBadKey(f, pair[2])

\* the pairs of font.kerning that have the value v: one pair at most
sourcesOf(f, v) == {p \in DOMAIN f.kerning : f.kerning[p] = v}

RuleFormats == {"pos %s %s %d;", "enum pos %s %s %d;"}
ruleLines(t) == {i \in DOMAIN t : t[i].format \in RuleFormats}

\* the characters A-Z, a-z, 0-9, "_" and "."
AllowedCharacters ==
    {c \in DOMAIN ord : ord[c] \in (65..90) \cup (97..122) \cup (48..57) \cup {95, 46}}

\* a class name that is legal already: a class prefix, then 1 to 24
\* allowed characters
isLegalClassName(n) ==
    /\ Take(n, classPrefixLength) \in {side1FeaPrefix, side2FeaPrefix}
    /\ Len(n) - classPrefixLength \in 1..(maxClassNameLength - classPrefixLength)
    /\ \A i \in (classPrefixLength + 1)..Len(n) : n[i] \in AllowedCharacters

-----------------------------------------------------------------------------
(* The properties *)

\* C1: no pair of font.kerning with a bad key (a glyph name absent from the
\* font, a group name that is not defined, a group with no member in the
\* font) is among the writer's pairs, and none yields a rule of the text:
\* every value the writer holds and every value a rule prints is the value
\* of a pair of font.kerning both keys of which are good.
C1_BadPairsAreLeftOut ==
    mode = "kern" /\ pc \in {"writer", "written"} =>
        /\ \A key \in DOMAIN pairs :
              /\ sourcesOf(font, pairs[key]) # {}
              /\ \A p \in sourcesOf(font, pairs[key]) : ~isBadPair(font, p)
        /\ pc = "written" =>
              \A i \in ruleLines(text) :
                  /\ sourcesOf(font, text[i].value) # {}
                  /\ \A p \in sourcesOf(font, text[i].value) : ~isBadPair(font, p)

\* a text with a rule, written for a font whose kerning has a pair with a
\* group no member of which is in the font
C1_Witness ==
    /\ mode = "kern" /\ pc = "written"
    /\ ruleLines(text) # {}
    /\ \E p \in DOMAIN font.kerning :
          /\ p[2] \in DOMAIN font.groups
          /\ isBadKey(font, p[2])
          /\ ~isBadKey(font, p[1])

\* C2: the class names the constructor maps the retained groups to are
\* pairwise distinct over both sides, and none is longer than 31 characters.
C2_ClassNamesAreDistinct ==
    mode = "kern" /\ pc = "writer" =>
        LET collected == getGroups(font)
            mapping == groupNameToClassNameMapping(collected.side1Groups,
                                                   collected.side2Groups)
        IN  \A g, h \in DOMAIN mapping :
                /\ Len(mapping[g]) <= maxClassNameLength
                /\ g # h => mapping[g] # mapping[h]

\* C3: given a provided name map whose values are legal and pairwise
\* distinct, the map makeGlyphDesignNameToFinalNameMap returns has a legal
\* final name for every glyph of the glyph order, and no two glyphs have the
\* same final name.
C3_FinalNamesAreDistinct ==
    mode = "nameMap" /\ pc = "done" /\ result.exc = "None" =>
        /\ Range(glyphOrder) \subseteq DOMAIN result.val
        /\ \A g \in DOMAIN result.val :
              /\ result.val[g] # <<>>
              /\ isLegalGlyphName(result.val[g]).val
        /\ \A g, h \in DOMAIN result.val : g # h => result.val[g] # result.val[h]

\* C4: a rule that enumerates the members of a decomposed exception never
\* lists a member for which, with the glyph of the exception, the writer
\* holds a glyph, glyph pair: such a member is left to its own rule.
C4_ExplicitPairsAreExcluded ==
    mode = "kern" /\ pc = "written" =>
        \A i \in ruleLines(text) :
            text[i].format = "enum pos %s %s %d;" =>
                \A l \in Range(text[i].side1.names), r \in Range(text[i].side2.names) :
                    <<l, r>> \notin DOMAIN pairs

\* the pairs (a, a) and (group of a and b, a) are held, a being in a group
\* of side 2: the exception is written for b alone
C4_Witness ==
    /\ mode = "kern" /\ pc = "written"
    /\ <<glyphA, glyphA>> \in DOMAIN pairs
    /\ \E i \in ruleLines(text) :
          /\ text[i].side1 = Side(<<glyphB>>, TRUE)
          /\ text[i].side2 = Side(<<glyphA>>, FALSE)
          /\ \E g \in DOMAIN side1Groups :
                /\ Range(side1Groups[g]) = {glyphA, glyphB}
                /\ <<g, glyphA>> \in DOMAIN pairs
                /\ pairs[<<g, glyphA>>] = text[i].value

\* the class names of the font's retained groups are pairwise distinct
classNamesAreDistinct(f) ==
    LET collected == getGroups(f)
        mapping == groupNameToClassNameMapping(collected.side1Groups,
                                               collected.side2Groups)
    IN  \A g, h \in DOMAIN mapping : g # h => mapping[g] # mapping[h]

\* C5: the text write() returns is the same whatever the order in which the
\* dicts of the font and of the writer are iterated: every writer the font
\* may give, and every text it may write for the header, is the text written.
\* It is stated of the fonts whose groups have class names of their own, to
\* which a clash of class names adds nothing.
C5_TextIsIndependentOfOrder ==
    mode = "kern" /\ pc = "written" /\ classNamesAreDistinct(font) =>
        \A w \in Writers(font) : \A t \in Texts(w, headerText) : t = text

C7_NoPairsNoText ==
    mode = "kern" /\ pc = "written"
                  /\ (\A p \in DOMAIN font.kerning : isBadPair(font, p))
        => text = EmptyText

\* the font has kerning, all of it bad, the writer has retained groups, a
\* header was given and the text is empty
C7_Witness ==
    /\ mode = "kern" /\ pc = "written"
    /\ DOMAIN font.kerning # {}
    /\ \A p \in DOMAIN font.kerning : isBadPair(font, p)
    /\ DOMAIN side1Groups # {} /\ DOMAIN side2Groups # {}
    /\ headerText # <<>>
    /\ text = EmptyText

\* the candidate with the counter n appended, within 31 characters
numbered(candidate, n) == Take(candidate, maxClassNameLength - Len(str(n))) \o str(n)

\* C8: the name makeLegalClassName returns is not in existing: it is the
\* candidate when the candidate is not in existing, and otherwise the
\* candidate with the smallest counter n >= 1 that gives a name not in
\* existing.
C8_ClassNameIsNotExisting ==
    mode = "className" /\ pc = "done" =>
        LET candidate == legalClassName(name)
        IN  /\ result.exc = "None"
            /\ result.val \notin existing
            /\ candidate \notin existing => result.val = candidate
            /\ candidate \in existing =>
                  \E n \in 1..(Cardinality(existing) + 1) :
                      /\ result.val = numbered(candidate, n)
                      /\ \A m \in 1..(n - 1) : numbered(candidate, m) \in existing

\* the smallest N from 1 on for which glyphN is not in ex
smallestFree(ex) ==
    LET free == {N \in (ex.dense + 1)..(ex.dense + Cardinality(ex.names) + 1) :
                    glyphWord \o str(N) \notin ex.names}
    IN  CHOOSE N \in free : \A M \in free : N <= M

\* C9: normalizeGlyphName returns a name and raises nothing, for every name
\* that is not empty, every uniValue and every existing short of the 99999
\* fallback names at which the fallback gives up; and when nothing of the
\* name is an allowed character and uniValue is None, the name returned is
\* the fallback name glyphN.
C9_GlyphNameIsTotal ==
    mode = "glyphName" /\ pc = "done" /\ name # <<>>
                       /\ existing.dense < fallbackCeiling - 1 =>
        /\ result.exc = "None"
        /\ result.val # <<>>
        /\ (\A i \in DOMAIN normalizeNFKD(name) :
                normalizeNFKD(name)[i] \notin AllowedCharacters) /\ uniValue = uniNone
              => result.val = glyphWord \o str(smallestFree(existing))

\* C10: _makeUniqueFallbackGlyphName returns glyphN for the smallest N of
\* 1..99999 with glyphN not in existing, a name that is not in existing, and
\* fails its assertion when there is no such N; and normalizeGlyphName
\* returns what _makeUniqueFallbackGlyphName returns whenever the name it
\* has made is empty or is not a legal glyph name.
C10_FallbackName ==
    /\ mode = "fallbackName" /\ pc = "done" =>
          IF smallestFree(existing) < fallbackCeiling
          THEN /\ result = Return(glyphWord \o str(smallestFree(existing)))
               /\ ~contains(existing, result.val)
          ELSE result.exc = "AssertionError"
    /\ mode = "glyphName" /\ pc = "done" =>
          LET candidate == candidateGlyphName(name, uniValue, existing)
          IN  candidate = <<>> \/ ~isLegalGlyphName(candidate).val
                 => result = _makeUniqueFallbackGlyphName(existing, 1)

\* the digits 0-9
DigitCharacters == {c \in DOMAIN ord : ord[c] \in 48..57}

\* C11: for a name that is not empty, isLegalGlyphName returns true exactly
\* when the first character is no digit, the first character is no "."
\* unless the name is ".notdef", the name has at most 31 characters, and
\* every character is an allowed character.
C11_LegalGlyphNames ==
    mode = "isLegalGlyphName" /\ pc = "done" /\ name # <<>> =>
        /\ result.exc = "None"
        /\ result.val <=>
              /\ name[1] \notin DigitCharacters
              /\ name[1] = "." => name = <<".", "n", "o", "t", "d", "e", "f">>
              /\ Len(name) <= 31
              /\ \A i \in DOMAIN name : name[i] \in AllowedCharacters

\* a name of 31 allowed characters has been found legal
C11_Witness ==
    /\ mode = "isLegalGlyphName" /\ pc = "done"
    /\ Len(name) = 31
    /\ result = Return(TRUE)

\* the allowed characters of the decomposed name, in their order
filteredGlyphName(n) ==
    SelectSeq(normalizeNFKD(n), LAMBDA c : c \in AllowedCharacters)

\* the name with "." and the smallest n >= 1 that gives a name not in ex
numberedGlyphName(n, ex) ==
    LET free == {k \in 1..(Cardinality(ex.names) + 1) :
                    ~contains(ex, n \o <<".">> \o str(k))}
    IN  n \o <<".">> \o str(CHOOSE k \in free : \A j \in free : k <= j)

SectionLabels ==
    <<"# glyph, glyph", "# glyph, group exceptions", "# group exceptions, glyph",
      "# glyph, group", "# group, glyph", "# group, group">>
labelRank(label) == CHOOSE r \in DOMAIN SectionLabels : SectionLabels[r] = label
labelLines(t) == {i \in DOMAIN t : t[i].format \in Range(SectionLabels)}

\* a side of a rule that is a class identifier
isClassSide(side) ==
    /\ ~side.inline
    /\ \/ startswith(side.names[1], side1FeaPrefix)
       \/ startswith(side.names[1], side2FeaPrefix)

\* the section a rule line is of, by what its two sides are
sectionOfRule(line) ==
    IF line.side2.inline THEN "# glyph, group exceptions"
    ELSE IF line.side1.inline THEN "# group exceptions, glyph"
    ELSE IF isClassSide(line.side1) /\ isClassSide(line.side2) THEN "# group, group"
    ELSE IF isClassSide(line.side1) THEN "# group, glyph"
    ELSE IF isClassSide(line.side2) THEN "# glyph, group"
    ELSE "# glyph, glyph"

\* C13: in the text written the labels of the sections stand in the fixed
\* order, every rule line stands in the section it is of, under its label,
\* and a label is never written for a section without a rule line: the line
\* after a label is a rule line of that section.
C13_SectionsInOrder ==
    mode = "kern" /\ pc = "written" =>
        /\ \A i, j \in labelLines(text) :
              i < j => labelRank(text[i].format) < labelRank(text[j].format)
        /\ \A i \in ruleLines(text) :
              \/ text[i - 1].format = sectionOfRule(text[i])
              \/ /\ i - 1 \in ruleLines(text)
                 /\ sectionOfRule(text[i - 1]) = sectionOfRule(text[i])
        /\ \A i \in labelLines(text) :
              /\ i + 1 \in ruleLines(text)
              /\ sectionOfRule(text[i + 1]) = text[i].format

\* the groups of the font that are retained: a kerning prefix and a member
\* in the font
retainedGroups(f) == {g \in DOMAIN f.groups : isGroupName(g) /\ ~isBadKey(f, g)}

classLines(t) == {i \in DOMAIN t : t[i].format = "%s = [%s];"}

\* the names of a list stand in ascending order
isAscending(l) == \A i, j \in DOMAIN l : i < j => StrLess(l[i], l[j])

\* C14: a text that is not empty has its class definitions before every
\* label and rule: as many lines as the font has retained groups, in
\* ascending order of the class names, and for each retained group one line
\* with its class name and its glyphs that are in the font, in ascending
\* order.
C14_ClassDefinitions ==
    mode = "kern" /\ pc = "written" /\ text # EmptyText =>
        LET collected == getGroups(font)
            mapping == groupNameToClassNameMapping(collected.side1Groups,
                                                   collected.side2Groups)
        IN  /\ \A i \in classLines(text), j \in labelLines(text) \cup ruleLines(text) : i < j
            /\ Cardinality(classLines(text)) = Cardinality(retainedGroups(font))
            /\ \A i, j \in classLines(text) :
                  i < j => StrLess(text[i].str0, text[j].str0)
            /\ \A g \in retainedGroups(font) :
                  \E i \in classLines(text) :
                      /\ text[i].str0 = mapping[g]
                      /\ isAscending(text[i].side1.names)
                      /\ Range(text[i].side1.names) = Range(font.groups[g]) \cap font.glyphs

\* the feature text the font brings: the file the features argument names,
\* or the font's own features, an absent text being empty
sourceText ==
    IF features # None THEN files[join(font.path, features)]
    ELSE IF font.featuresText = NoneText THEN <<>> ELSE font.featuresText

\* the directory relative includes of the feature text start from
sourceDirectory ==
    IF features # None THEN font.path ELSE dirname(font.path)

\* t is s with the relative include paths made absolute from the directory
isAbsoluteFormOf(t, s, directory) ==
    /\ Len(t) = Len(s)
    /\ \A i \in DOMAIN s :
          /\ t[i].kind = s[i].kind
          /\ t[i].tag = s[i].tag
          /\ t[i].path = IF s[i].path = <<>> \/ s[i].path[1] = "/" THEN s[i].path
                         ELSE directory \o s[i].path

\* the names t defines, outside comments and strings
definedIn(kind, t) == {t[i].tag : i \in {j \in DOMAIN t : t[j].kind = kind}}

\* the paths t includes, outside comments and strings
includedBy(t) == {t[i].path : i \in {j \in DOMAIN t : t[j].kind = "include"}}

\* the existing files that reached leads to through includes
RECURSIVE includeClosure(_)
includeClosure(reached) ==
    LET further == {p \in DOMAIN files \ {featuresPath} :
                       \E q \in reached : p \in includedBy(files[q])}
    IN  IF further \subseteq reached THEN reached
        ELSE includeClosure(reached \cup further)

\* the existing files the written feature text includes, itself or through
\* its includes
scannedIncludes(t) ==
    includeClosure(includedBy(t) \cap (DOMAIN files \ {featuresPath}))

\* the names the written feature text or its includes define
foundIn(kind, t) ==
    definedIn(kind, t) \cup UNION {definedIn(kind, files[p]) : p \in scannedIncludes(t)}

\* the parts of the file setupFile_features has written
writtenParts == files[featuresPath]

\* setupFile_features has returned
featuresAreSetUp == mode = "features" /\ pc = "done" /\ result.exc = "None"

\* the generated blocks follow the first part, and they are the tables not
\* found and the kern feature only if it is not found and there is kerning
generatedAsNeeded ==
    LET existingText == writtenParts[1].body
        generated == {i \in DOMAIN writtenParts : i > 1}
    IN  /\ writtenParts[1].kind = "existing"
        /\ \A i \in generated : writtenParts[i].kind \in {"feature", "table"}
        /\ \A tag \in {headTag, hheaTag, OS2Tag, nameTag} :
              (\E i \in generated : writtenParts[i].kind = "table" /\ writtenParts[i].tag = tag)
              <=> tag \notin foundIn("table", existingText)
        /\ \A i \in generated :
              writtenParts[i].kind = "feature"
              => /\ writtenParts[i].tag = kernTag
                 /\ kernTag \notin foundIn("feature", existingText)
                 /\ DOMAIN font.kerning # {}

\* C15: when setupFile_features returns, the file it has written starts
\* with the existing feature text, in which the relative include paths have
\* been made absolute (from the directory of the features file, or from the
\* directory the font is in; as they were when the font has no path) and
\* nothing else has changed; the generated blocks follow it; each of the
\* tables head, hhea, OS/2 and name is generated exactly when the existing
\* text and the existing files it includes define no table of that name; the
\* kern feature is generated only when they define no kern feature and the
\* font has kerning.
C15_ExistingFeaturesAreKept ==
    featuresAreSetUp
    => /\ featuresPath \in DOMAIN files
       /\ IF font.path = None THEN writtenParts[1].body = sourceText
          ELSE isAbsoluteFormOf(writtenParts[1].body, sourceText, sourceDirectory)
       /\ generatedAsNeeded

\* The font's own features define the table head and include a file, found
\* from the font's directory, that defines the table name; the font has
\* kerning: the kern feature and the tables OS/2 and hhea are written after
\* the existing features.
C15_Witness ==
    /\ featuresAreSetUp
    /\ features = None
    /\ font.path = ufoPath
    /\ font.featuresText = <<Definition("table", headTag), Include(relativeInclude)>>
    /\ dirname(ufoPath) \o relativeInclude \in DOMAIN files
    /\ files[dirname(ufoPath) \o relativeInclude] = <<Definition("table", nameTag)>>
    /\ DOMAIN font.kerning # {}
    /\ Len(writtenParts) = 4
    /\ writtenParts[1].body[2].path = <<"/", "inc.fea">>
    /\ writtenParts[2].kind = "feature" /\ writtenParts[2].tag = kernTag
    /\ writtenParts[3].tag = OS2Tag
    /\ writtenParts[4].tag = hheaTag

\* C15 as stated: the existing feature text is written first and unchanged,
\* and the blocks are generated as said.
C15_ExistingFeaturesAreUnchanged ==
    featuresAreSetUp
    => /\ featuresPath \in DOMAIN files
       /\ writtenParts[1].body = sourceText
       /\ generatedAsNeeded

\* name begins with prefix
beginsWith(groupName, prefix) ==
    /\ Len(groupName) >= Len(prefix)
    /\ \A i \in 1..Len(prefix) : groupName[i] = prefix[i]

\* the places of glyphList that hold a glyph of the font
presentPlaces(glyphList) == {i \in DOMAIN glyphList : glyphList[i] \in font.glyphs}

\* stored is glyphList without the glyphs the font lacks, the others in the
\* order they have in glyphList: its k-th member is the glyph at the k-th
\* of the places that hold a glyph of the font
isPresentPartOf(stored, glyphList) ==
    LET places == presentPlaces(glyphList)
    IN  /\ Len(stored) = Cardinality(places)
        /\ \A i \in places :
              stored[Cardinality({j \in places : j <= i})] = glyphList[i]

\* C16: after getGroups() a group of the font is in one of the two dicts
\* exactly when its name begins with 'public.kern1.' or 'public.kern2.' and
\* one of the glyphs it lists is in the font; it is then in the dict of the
\* side its prefix names and in no other, and what is stored for it is its
\* list without the glyphs the font lacks, the others in their order. The
\* dicts hold nothing else.
C16_GroupsAreRetained ==
    mode = "getGroups" /\ pc = "groups"
    => /\ DOMAIN side1Groups \cup DOMAIN side2Groups \subseteq DOMAIN font.groups
       /\ \A g \in DOMAIN font.groups :
             LET retained == /\ beginsWith(g, side1Prefix) \/ beginsWith(g, side2Prefix)
                             /\ presentPlaces(font.groups[g]) # {}
             IN  /\ g \in DOMAIN side1Groups <=> retained /\ beginsWith(g, side1Prefix)
                 /\ g \in DOMAIN side2Groups <=> retained /\ beginsWith(g, side2Prefix)
                 /\ g \in DOMAIN side1Groups
                    => isPresentPartOf(side1Groups[g], font.groups[g])
                 /\ g \in DOMAIN side2Groups
                    => isPresentPartOf(side2Groups[g], font.groups[g])

\* The side 1 group lists a, z, b, a and keeps a, b, a; the side 2 group
\* lists only z and is dropped; the group without a prefix and the group
\* with a cut prefix have glyphs of the font and are dropped.
C16_Witness ==
    /\ mode = "getGroups" /\ pc = "groups"
    /\ DOMAIN font.groups = PlainGroupNames
    /\ font.groups[groupP("plain", 1)] = <<glyphA, glyphZ, glyphB, glyphA>>
    /\ font.groups[groupP("plain", 2)] = <<glyphZ>>
    /\ font.groups[<<"P">>] = <<glyphA>>
    /\ font.groups[Take(side1Prefix, groupPrefixLength - 1) \o <<"P">>] = <<glyphA>>
    /\ DOMAIN side1Groups = {groupP("plain", 1)}
    /\ side1Groups[groupP("plain", 1)] = <<glyphA, glyphB, glyphA>>
    /\ DOMAIN side2Groups = {}

\* a key of a pair that is a class identifier
isClass1(key) == beginsWith(key, side1FeaPrefix)
isClass2(key) == beginsWith(key, side2FeaPrefix)

\* the ways getSeparatedPairs(self.pairs) may separate the writer's pairs,
\* one for each order of its two loops of decomposition
Separations ==
    {getSeparatedPairs(pairs, writerOf, glyphGroupOrder, groupGlyphOrder) :
        glyphGroupOrder \in Orders(separated(pairs).glyphGroup),
        groupGlyphOrder \in Orders(separated(pairs).groupGlyph)}

\* The buckets of the separation sep that hold the pair p. A decomposed
\* pair is known in its bucket by its glyph and its value, no two pairs of
\* a font having the same value.
bucketsOf(p, sep) ==
    LET plainly(bucket) == p \in DOMAIN bucket /\ bucket[p] = pairs[p]
    IN  {b \in {"glyphGlyph", "glyphGroup", "groupGlyph", "groupGroup"} :
            \/ b = "glyphGlyph" /\ ~isClass1(p[1]) /\ ~isClass2(p[2]) /\ plainly(sep.glyphGlyph)
            \/ b = "glyphGroup" /\ ~isClass1(p[1]) /\ isClass2(p[2]) /\ plainly(sep.glyphGroup)
            \/ b = "groupGlyph" /\ isClass1(p[1]) /\ ~isClass2(p[2]) /\ plainly(sep.groupGlyph)
            \/ b = "groupGroup" /\ isClass1(p[1]) /\ isClass2(p[2]) /\ plainly(sep.groupGroup)}
    \cup {b \in {"glyphGroupDecomposed"} :
            /\ ~isClass1(p[1]) /\ isClass2(p[2])
            /\ \E k \in DOMAIN sep.glyphGroupDecomposed :
                  k[1] = p[1] /\ sep.glyphGroupDecomposed[k] = pairs[p]}
    \cup {b \in {"groupGlyphDecomposed"} :
            /\ isClass1(p[1]) /\ ~isClass2(p[2])
            /\ \E k \in DOMAIN sep.groupGlyphDecomposed :
                  k[2] = p[2] /\ sep.groupGlyphDecomposed[k] = pairs[p]}

\* the pairs of the writer whose keys are, or are not, class identifiers
pairsOfKind(class1, class2) ==
    LET S == {p \in DOMAIN pairs : isClass1(p[1]) = class1 /\ isClass2(p[2]) = class2}
    IN  [p \in S |-> pairs[p]]

\* C17: however getSeparatedPairs separates the pairs of the writer, every
\* pair is in exactly one of the six buckets, the one its keys say or, for a
\* pair of a glyph and a class, the bucket of the exceptions of its kind;
\* the buckets glyph, glyph and group, group hold the pairs of their kind as
\* they were.
C17_OneBucketForEachPair ==
    mode = "kern" /\ pc = "written" =>
        \A sep \in Separations :
            /\ \A p \in DOMAIN pairs : Cardinality(bucketsOf(p, sep)) = 1
            /\ sep.glyphGlyph = pairsOfKind(FALSE, FALSE)
            /\ sep.groupGroup = pairsOfKind(TRUE, TRUE)

\* the glyph is a member of a retained group of the font whose name has
\* the prefix
isInGroupOf(glyphName, prefix) ==
    \E g \in retainedGroups(font) :
        beginsWith(g, prefix) /\ glyphName \in Range(font.groups[g])

\* C18: however getSeparatedPairs separates the pairs of the writer, a pair
\* of a glyph and a class has left the bucket glyph, group exactly when the
\* glyph is a member of a retained group of side 1, and a pair of a class
\* and a glyph has left the bucket group, glyph exactly when the glyph is a
\* member of a retained group of side 2; otherwise the pair stays in its
\* plain bucket.
C18_DecomposedWhenGrouped ==
    mode = "kern" /\ pc = "written" =>
        \A sep \in Separations : \A p \in DOMAIN pairs :
            /\ ~isClass1(p[1]) /\ isClass2(p[2])
               => (p \notin DOMAIN sep.glyphGroup <=> isInGroupOf(p[1], side1Prefix))
            /\ isClass1(p[1]) /\ ~isClass2(p[2])
               => (p \notin DOMAIN sep.groupGlyph <=> isInGroupOf(p[2], side2Prefix))

\* What the n-th pass of the loop "glyph to group" does, the loop meeting
\* the pairs in the order given: the pair, whether it is decomposed, and the
\* members it is stored with, read in the buckets as they are after the pass.
glyphGroupPass(order, n) ==
    LET sep == getSeparatedPairs(pairs, writerOf, Take(order, n), <<>>)
        p == order[n]
        isDecomposed == p \notin DOMAIN sep.glyphGroup
    IN  [pair |-> p, glyph |-> p[1], isDecomposed |-> isDecomposed,
         members |-> IF ~isDecomposed THEN <<>>
                     ELSE (CHOOSE k \in DOMAIN sep.glyphGroupDecomposed :
                              /\ k[1] = p[1]
                              /\ sep.glyphGroupDecomposed[k] = pairs[p])[2]]

\* the same of the loop "group to glyph", which follows the whole of the
\* first loop
groupGlyphPass(glyphGroupOrder, order, n) ==
    LET sep == getSeparatedPairs(pairs, writerOf, glyphGroupOrder, Take(order, n))
        p == order[n]
        isDecomposed == p \notin DOMAIN sep.groupGlyph
    IN  [pair |-> p, glyph |-> p[2], isDecomposed |-> isDecomposed,
         members |-> IF ~isDecomposed THEN <<>>
                     ELSE (CHOOSE k \in DOMAIN sep.groupGlyphDecomposed :
                              /\ k[2] = p[2]
                              /\ sep.groupGlyphDecomposed[k] = pairs[p])[1]]

\* the lines of the text t that are rules 'enum pos' with the value v
enumRules(t, v) ==
    {i \in DOMAIN t : t[i].format = "enum pos %s %s %d;" /\ t[i].value = v}

\* the passes of one loop: a decomposed pair with members has one rule
\* 'enum pos' in the text, with its value, its glyph and its members, and
\* two decomposed pairs of one glyph have no member in common
passesAreKept(passes, t) ==
    /\ \A n \in DOMAIN passes :
          passes[n].isDecomposed /\ passes[n].members # <<>>
          => /\ Cardinality(enumRules(t, pairs[passes[n].pair])) = 1
             /\ \A i \in enumRules(t, pairs[passes[n].pair]) :
                   \E inlineSide \in {t[i].side1, t[i].side2},
                      glyphSide \in {t[i].side1, t[i].side2} :
                       /\ inlineSide.inline
                       /\ inlineSide.names = sortedList(passes[n].members)
                       /\ ~glyphSide.inline
                       /\ glyphSide.names = <<passes[n].glyph>>
    /\ \A m, n \in DOMAIN passes :
          /\ m # n
          /\ passes[m].isDecomposed /\ passes[n].isDecomposed
          /\ passes[m].glyph = passes[n].glyph
          => Range(passes[m].members) \cap Range(passes[n].members) = {}

\* C19: whatever the order of the two loops of decomposition, every
\* decomposed pair that is stored with members has exactly one rule
\* 'enum pos' in the text written, the rule has the value of the pair, and
\* no two decomposed pairs of the same glyph are stored with a member in
\* common, so that neither takes the other's entry.
C19_DecompositionKeepsValues ==
    mode = "kern" /\ pc = "written" =>
        \A glyphGroupOrder \in Orders(separated(pairs).glyphGroup),
           groupGlyphOrder \in Orders(separated(pairs).groupGlyph) :
            LET t == write(writerOf, <<>>, glyphGroupOrder, groupGlyphOrder)
            IN  /\ passesAreKept([n \in DOMAIN glyphGroupOrder |->
                                     glyphGroupPass(glyphGroupOrder, n)], t)
                /\ passesAreKept([n \in DOMAIN groupGlyphOrder |->
                                     groupGlyphPass(glyphGroupOrder, groupGlyphOrder, n)], t)

\* Two pairs of the glyph a and a class of side 2 are decomposed, the
\* classes have b in common: one pair is written with b, or with a and b,
\* the other with what is left, each in a rule with its value.
C19_Witness ==
    /\ mode = "kern" /\ pc = "written"
    /\ \E p, q \in DOMAIN pairs :
          /\ p # q
          /\ p[1] = glyphA /\ q[1] = glyphA
          /\ isClass2(p[2]) /\ isClass2(q[2])
          /\ glyphB \in Range(side2Groups[p[2]]) \cap Range(side2Groups[q[2]])
          /\ glyphA \in Range(side2Groups[q[2]])
          /\ glyphA \in DOMAIN flatSide1Groups
          /\ \E i, j \in DOMAIN text :
                /\ text[i].format = "enum pos %s %s %d;"
                /\ text[i].value = pairs[p]
                /\ text[i].side2 = Side(<<glyphB>>, TRUE)
                /\ text[j].format = "enum pos %s %s %d;"
                /\ text[j].value = pairs[q]
                /\ text[j].side2 = Side(<<glyphA>>, TRUE)

\* what getGroups() and getPairs() retain of the font, and the mapping of
\* the names of the retained groups to class names
retainedOf(f) ==
    LET collected == getGroups(f)
    IN  [side1Groups |-> collected.side1Groups,
         side2Groups |-> collected.side2Groups,
         pairs |-> getPairs(f, collected.side1Groups, collected.side2Groups),
         mapping |-> groupNameToClassNameMapping(collected.side1Groups,
                                                 collected.side2Groups)]

\* a key of a pair as the mapping m rewrites it
mapped(m, key) == IF key \in DOMAIN m THEN m[key] ELSE key

\* the dict renamed holds one entry for each entry of the dict raw, under
\* the key rewritten, with the value of the entry, and nothing else
isRenamingOf(renamed, raw, rewritten(_)) ==
    /\ DOMAIN renamed = {rewritten(k) : k \in DOMAIN raw}
    /\ \A k \in DOMAIN raw : renamed[rewritten(k)] = raw[k]
    /\ Cardinality(DOMAIN renamed) = Cardinality(DOMAIN raw)

\* C20: the writer built from a font holds one pair for each pair retained,
\* under the keys the mapping gives and with its value, and on each side
\* one group for each group retained, under its class name and with its
\* contents: as many pairs and as many groups as were retained.
C20_RenamingLosesNothing ==
    mode = "kern" /\ pc = "writer" =>
        LET raw == retainedOf(font)
            m == raw.mapping
        IN  /\ isRenamingOf(pairs, raw.pairs,
                            LAMBDA p : <<mapped(m, p[1]), mapped(m, p[2])>>)
            /\ isRenamingOf(side1Groups, raw.side1Groups, LAMBDA g : m[g])
            /\ isRenamingOf(side2Groups, raw.side2Groups, LAMBDA g : m[g])

\* the class names of the groups of one side of the writer that list the
\* glyph
candidateGroups(groups, glyphName) ==
    {g \in DOMAIN groups : glyphName \in Range(groups[g])}

\* flat records for every glyph of the groups the smallest of the class
\* names of the groups that list it
recordsSmallest(flat, groups) ==
    \A glyphName \in DOMAIN flat :
        \A g \in candidateGroups(groups, glyphName) :
            g = flat[glyphName] \/ StrLess(flat[glyphName], g)

\* C21: the group the writer records for a glyph in flatSide1Groups and in
\* flatSide2Groups is the lexicographically smallest of the class names of
\* the groups of that side that list the glyph, whatever the order in which
\* the dicts of the groups are iterated. It is stated of the fonts whose
\* groups have class names of their own.
C21_FlatGroupIsSmallest ==
    mode = "kern" /\ pc = "writer" /\ classNamesAreDistinct(font) =>
        /\ recordsSmallest(flatSide1Groups, side1Groups)
        /\ recordsSmallest(flatSide2Groups, side2Groups)

\* the places of s that hold an allowed character
allowedPlaces(s) == {i \in DOMAIN s : s[i] \in AllowedCharacters}

\* kept is made of the allowed characters of s, in their order, up to the
\* most characters given: the allowed character at the k-th of these places
\* is the k-th character of kept, for k up to most
isAllowedPartOf(kept, s, most) ==
    LET places == allowedPlaces(s)
        rank(i) == Cardinality({j \in places : j <= i})
    IN  /\ Len(kept) = IF Cardinality(places) < most THEN Cardinality(places) ELSE most
        /\ \A i \in places : rank(i) <= most => kept[rank(i)] = s[i]

\* what makeLegalClassName has returned: the prefix and the suffix
returnedPrefix == SubSeq(result.val, 1, IF Len(name) < 7 THEN Len(name) ELSE 7)
returnedSuffix ==
    SubSeq(result.val, (IF Len(name) < 7 THEN Len(name) ELSE 7) + 1, Len(result.val))

\* C22: makeLegalClassName returns the first 7 characters of the name
\* followed by the allowed characters of the rest, in their order and at
\* most 24 of them, or by 'noTransPossible' when the rest has no allowed
\* character; when existing is empty the name returned has at most 31
\* characters and its suffix is not empty and of allowed characters only.
C22_ClassNameIsFiltered ==
    mode = "className" /\ pc = "done" /\ result.exc = "None" =>
        /\ returnedPrefix = SubSeq(name, 1, Len(returnedPrefix))
        /\ IF allowedPlaces(SubSeq(name, 8, Len(name))) = {}
           THEN returnedSuffix = noTransPossible
           ELSE isAllowedPartOf(returnedSuffix, SubSeq(name, 8, Len(name)), 24)
        /\ existing = {} => /\ Len(result.val) <= 31
                            /\ returnedSuffix # <<>>
                            /\ \A i \in DOMAIN returnedSuffix :
                                  returnedSuffix[i] \in AllowedCharacters

\* a name with 25 allowed characters after its prefix has lost the last; a
\* name whose rest is one illegal character has got the fallback
C22_Witness ==
    /\ mode = "className" /\ pc = "done"
    /\ existing = {}
    /\ \/ /\ name = side1FeaPrefix \o longSuffix \o <<"1">>
          /\ result = Return(side1FeaPrefix \o longSuffix)
       \/ /\ name = side1FeaPrefix \o <<"bullet">>
          /\ result = Return(side1FeaPrefix \o noTransPossible)

\* s[:n] for n >= 0
firstCharacters(s, n) == SubSeq(s, 1, IF n < Len(s) THEN n ELSE Len(s))

\* C23: for every finite existing _makeUniqueClassName(name, existing)
\* returns; it returns the name when it is not in existing, and otherwise
\* name[:31 - len(str(n))] + str(n) for the smallest n >= 1 that gives a
\* name not in existing; what it returns is not in existing and, when the
\* name has at most 31 characters, has at most 31.
C23_UniqueClassName ==
    mode = "uniqueClassName" /\ pc = "done" =>
        /\ result.exc = "None"
        /\ result.val \notin existing
        /\ name \notin existing => result.val = name
        /\ name \in existing =>
              \E n \in 1..(Cardinality(existing) + 1) :
                  /\ result.val = firstCharacters(name, 31 - Len(str(n))) \o str(n)
                  /\ \A m \in 1..(n - 1) :
                        firstCharacters(name, 31 - Len(str(m))) \o str(m) \in existing
        /\ Len(name) <= 31 => Len(result.val) <= 31

\* the filtered name is otherwise legal: it starts with no digit and no period
startsLegally(n) == n # <<>> /\ n[1] \notin DigitCharacters /\ n[1] # "."

glyphRules(t) ==
    {i \in ruleLines(t) : ~isClassSide(t[i].side1) /\ ~isClassSide(t[i].side2)}

\* the pairs of glyphs a rule line positions: the pair itself, or one for
\* each member enumerated
positionedBy(line) ==
    {<<l, r>> : l \in Range(line.side1.names), r \in Range(line.side2.names)}

\* C25: in the text written, no pair of glyphs is positioned by two rules
\* of the section glyph, glyph and the two sections of exceptions: not by a
\* rule of its own and a member of an 'enum pos' rule, and not by two
\* 'enum pos' rules of either kind.
C25_OneRuleForEachGlyphPair ==
    mode = "kern" /\ pc = "written" =>
        \A i, j \in glyphRules(text) :
            i # j => positionedBy(text[i]) \cap positionedBy(text[j]) = {}

\* A pair of the glyph a and a class of side 2 and a pair of a class of
\* side 1 and the glyph a have both been decomposed, a being in both
\* classes: one 'enum pos' rule enumerates a on the right, the other
\* enumerates on the left and not a.
C25_Witness ==
    /\ mode = "kern" /\ pc = "written"
    /\ \E p, q \in DOMAIN pairs :
          /\ p[1] = glyphA /\ isClass2(p[2]) /\ glyphA \in Range(side2Groups[p[2]])
          /\ isClass1(q[1]) /\ q[2] = glyphA /\ glyphA \in Range(side1Groups[q[1]])
          /\ \E i, j \in glyphRules(text) :
                /\ text[i].side2.inline /\ text[i].value = pairs[p]
                /\ glyphA \in Range(text[i].side2.names)
                /\ text[j].side1.inline /\ text[j].value = pairs[q]
                /\ glyphA \notin Range(text[j].side1.names)

\* the text t has the plain rule 'pos' of the pair p of the writer
hasPlainRule(t, p) ==
    \E i \in ruleLines(t) :
        /\ ~t[i].side1.inline /\ t[i].side1.names = <<p[1]>>
        /\ ~t[i].side2.inline /\ t[i].side2.names = <<p[2]>>

\* the pair of glyphs is positioned in the text t by a rule of the section
\* glyph, glyph or by a rule 'enum pos' that enumerates it
isPositioned(t, l, r) == \E i \in glyphRules(t) : <<l, r>> \in positionedBy(t[i])

\* C26: in the text written, a pair of a glyph and a class that has been
\* decomposed, and so has no plain rule, has each pair of the glyph and a
\* member of the class positioned by a rule of the section glyph, glyph or
\* by an 'enum pos' rule that enumerates the member; and so has a
\* decomposed pair of a class and a glyph.
C26_NoMemberUncovered ==
    mode = "kern" /\ pc = "written" =>
        \A p \in DOMAIN pairs :
            /\ ~isClass1(p[1]) /\ isClass2(p[2]) /\ ~hasPlainRule(text, p)
               => \A r \in Range(side2Groups[p[2]]) : isPositioned(text, p[1], r)
            /\ isClass1(p[1]) /\ ~isClass2(p[2]) /\ ~hasPlainRule(text, p)
               => \A l \in Range(side1Groups[p[1]]) : isPositioned(text, l, p[2])

\* The pair of the glyph a and itself has a rule of its own, and the
\* pair of a class of a and b and the glyph a has been decomposed: its
\* 'enum pos' rule enumerates b alone, a being covered by the first rule.
C26_Witness ==
    /\ mode = "kern" /\ pc = "written"
    /\ <<glyphA, glyphA>> \in DOMAIN pairs
    /\ \E q \in DOMAIN pairs :
          /\ isClass1(q[1]) /\ q[2] = glyphA
          /\ Range(side1Groups[q[1]]) = {glyphA, glyphB}
          /\ ~hasPlainRule(text, q)
          /\ \E i, j \in glyphRules(text) :
                /\ text[i].side1 = Side(<<glyphA>>, FALSE)
                /\ text[i].side2 = Side(<<glyphA>>, FALSE)
                /\ text[j].side1 = Side(<<glyphB>>, TRUE)
                /\ text[j].side2 = Side(<<glyphA>>, FALSE)
                /\ text[j].value = pairs[q]

\* the sides of the rule lines of the text t
ruleSides(t) == UNION {{t[i].side1, t[i].side2} : i \in ruleLines(t)}

\* C27: for every font, every key of a retained pair that has a prefix of
\* the kerning groups is a key of the mapping of group names to class
\* names, so that the renaming finds it; and in the text written every
\* class identifier that is a side of a rule has its class definition line,
\* and every glyph named in a rule or in a class definition is in the font.
C27_OutputRefersToWhatIs ==
    /\ mode = "kern" =>
          LET retained == retainedOf(font)
          IN  \A p \in DOMAIN retained.pairs : \A n \in {1, 2} :
                  isGroupName(p[n]) => p[n] \in DOMAIN retained.mapping
    /\ mode = "kern" /\ pc = "written" =>
          /\ \A side \in ruleSides(text) :
                IF isClassSide(side)
                THEN \E j \in classLines(text) : text[j].str0 = side.names[1]
                ELSE Range(side.names) \subseteq font.glyphs
          /\ \A j \in classLines(text) : Range(text[j].side1.names) \subseteq font.glyphs

\* C28: a call of write() leaves the groups and the kerning of the font as
\* they are, and the pairs, the groups and the flat groups of the writer as
\* the construction left them; and a call of write() with the headerText of
\* the call before returns the text that call returned.
C28_WriteChangesNothing ==
    [][mode = "kern" /\ pc # "font" =>
          /\ font'.groups = font.groups
          /\ font'.kerning = font.kerning
          /\ UNCHANGED <<pairs, side1Groups, side2Groups, flatSide1Groups,
                         flatSide2Groups>>
          /\ pc = "written" /\ pc' = "written" /\ headerText' = headerText
             => text' = text]_vars

\* write() has been called with a header by a writer that decomposes a
\* pair and has its groups and its pairs still: the text has a rule
\* 'enum pos' below the header
C28_Witness ==
    /\ mode = "kern" /\ pc = "written"
    /\ DOMAIN pairs # {} /\ DOMAIN side1Groups # {} /\ DOMAIN flatSide1Groups # {}
    /\ headerText # <<>>
    /\ \E i \in ruleLines(text) : text[i].format = "enum pos %s %s %d;"

\* the flat groups that record, for each glyph of flat, some group of
\* groups that holds the glyph
recordingsOf(flat, groups) ==
    {other \in [DOMAIN flat -> DOMAIN groups] :
        \A glyphName \in DOMAIN flat : glyphName \in Range(groups[other[glyphName]])}

\* C29: write() asks the flat groups only whether a glyph is in some group
\* of a side: with any other group that holds the glyph recorded for it,
\* for any glyphs of either side, getSeparatedPairs fills the buckets as it
\* did and write() returns the text it returned.
C29_OnlyMembershipMatters ==
    mode = "kern" /\ pc = "written" =>
        LET sep == separated(pairs)
            glyphGroupOrder == loopOrder(pairsOrder, sep.glyphGroup)
            groupGlyphOrder == loopOrder(pairsOrder, sep.groupGlyph)
        IN  \A flat1 \in recordingsOf(flatSide1Groups, side1Groups),
               flat2 \in recordingsOf(flatSide2Groups, side2Groups) :
                LET other == [writerOf EXCEPT !.flatSide1Groups = flat1,
                                              !.flatSide2Groups = flat2]
                IN  /\ getSeparatedPairs(pairs, other, glyphGroupOrder, groupGlyphOrder)
                         = getSeparatedPairs(pairs, writerOf, glyphGroupOrder,
                                             groupGlyphOrder)
                    /\ write(other, headerText, glyphGroupOrder, groupGlyphOrder) = text

\* The glyph a is in two classes of side 1, one of them recorded, and a
\* pair of a and a class of side 2 has been decomposed.
C29_Witness ==
    /\ mode = "kern" /\ pc = "written"
    /\ Cardinality({g \in DOMAIN side1Groups : glyphA \in Range(side1Groups[g])}) = 2
    /\ Cardinality(recordingsOf(flatSide1Groups, side1Groups)) > 1
    /\ \E p \in DOMAIN pairs :
          /\ p[1] = glyphA /\ isClass2(p[2])
          /\ \E i \in ruleLines(text) :
                /\ text[i].format = "enum pos %s %s %d;"
                /\ text[i].side1 = Side(<<glyphA>>, FALSE)
                /\ text[i].value = pairs[p]

\* the paths of the list, each as often as the list has it
timesIn(list, path) == Cardinality({i \in DOMAIN list : list[i] = path})

\* C30: a call of extractFeaturesAndTables(text) returns, whatever the
\* calls before it; it has scanned each existing file that the text
\* includes, itself or through its includes, exactly once, also when files
\* include each other; and it returns the features and tables that the
\* text and those files define, as a first call does.
C30_EveryCallScansItsIncludes ==
    mode = "extract" /\ pc = "done" =>
        /\ result.exc = "None"
        /\ \A path \in DOMAIN files :
              timesIn(result.val.scanned, path)
                  = IF path \in scannedIncludes(text) THEN 1 ELSE 0
        /\ DOMAIN result.val.features = foundIn("feature", text)
        /\ DOMAIN result.val.tables = foundIn("table", text)
        /\ LET first == extractFeaturesAndTables(text, <<>>, files)
           IN  /\ result.val.features = first.features
               /\ result.val.tables = first.tables

====
